---- MODULE Spec2Model ----
(***************************************************************************)
(* Model of the mojila-signal signal cache store (src/database.py), the    *)
(* signal generator (src/main.py) and the batch endpoints of the web       *)
(* backend (src/app.py).                                                   *)
(*                                                                         *)
(* Conventions                                                             *)
(*   - a date 'YYYY-MM-DD' is its day number: ISO dates order as text the  *)
(*     way their days order as numbers;                                    *)
(*   - a Python dict is a function whose domain is its set of keys; the    *)
(*     empty dict is the function with the empty domain, << >>;            *)
(*   - a row of the signals table is [id, symbol, date, signal_data] with  *)
(*     signal_data the JSON text json.dumps produced;                      *)
(*   - an sqlite3 failure (locked or unreadable file) is an input of the   *)
(*     operation that suffers it: io = FALSE.                              *)
(***************************************************************************)
EXTENDS Integers, Sequences, FiniteSets, TLC

VARIABLES rows, nextId, today, market, out

vars == <<rows, nextId, today, market, out>>

\* ------------------------------------------------------------------ bounds
MaxId == 2          \* rows ever inserted (AUTOINCREMENT ids 1..MaxId)
MaxDay == 1         \* the clock runs over days 0..MaxDay
MaxLen == 2         \* longest list of requested symbols

Symbols == {"AAPL", "MSFT"}
Days == 0..MaxDay
\* Python's None where a dict is expected, and where a date is expected.
None == [none |-> TRUE]
NoDate == -1

\* ------------------------------------------------------------- Python dicts
EmptyDict == << >>
\* d[k] = v executed on dict d: every other key keeps its value.
DictSet(d, k, v) == [x \in (DOMAIN d) \cup {k} |-> IF x = k THEN v ELSE d[x]]
\* `if d:` on a dict (or None): an empty dict is falsy.
Truthy(d) == d # None /\ DOMAIN d # {}

\* ------------------------------------------------------------------- json
\* A value json.dumps cannot serialise (a datetime, a Timestamp, an object).
NotJson == "<object>"
\* The keys of a JSON object in the order the text lists them.
FieldOrder == <<"symbol", "currentRSI", "currentSignal", "signalStrength",
                "currentMACD", "currentMACDSignal", "currentMACDHistogram",
                "macdPosition", "recentBuySignals", "recentSellSignals",
                "calendarEvents", "lastUpdated", "source", "error">>
\* The keys whose value is text (or an object standing where text should be);
\* the other keys hold numbers, calendarEvents a dict of two flags.
TextKeys == {"symbol", "currentSignal", "signalStrength", "macdPosition",
             "lastUpdated", "source", "error"}
RECURSIVE DumpFrom(_, _)
DumpFrom(d, i) ==
    IF i > Len(FieldOrder) THEN << >>
    ELSE IF FieldOrder[i] \in DOMAIN d
         THEN << <<FieldOrder[i], d[FieldOrder[i]]>> >> \o DumpFrom(d, i + 1)
         ELSE DumpFrom(d, i + 1)
\* json.dumps(d) raises TypeError on a value that is not JSON.
JsonSerializable(d) == \A k \in (DOMAIN d) \cap TextKeys : d[k] # NotJson
\* json.dumps(d): the text, a list of key/value members.
json_dumps(d) == DumpFrom(d, 1)
\* json.loads(text): the dict of the members of the text.
json_loads(text) ==
    [k \in {text[i][1] : i \in DOMAIN text} |->
        (CHOOSE m \in {text[i] : i \in DOMAIN text} : m[1] = k)[2]]

\* --------------------------------------------------------- SignalDatabase
\* signal_date defaulting to date.today() in every operation.
ResolveDate(signal_date) == IF signal_date = NoDate THEN today ELSE signal_date

\* The rows a (symbol, date) key selects.
Matching(tbl, symbol, d) == {r \in tbl : r.symbol = symbol /\ r.date = d}

\* A plain INSERT on a table without the UNIQUE(symbol, date) constraint.
InsertOnly(tbl, id, symbol, d, text) ==
    tbl \cup {[id |-> id, symbol |-> symbol, date |-> d, signal_data |-> text]}

\* An upsert whose conflict key is the symbol alone: every row of the symbol
\* is replaced.
InsertOrReplaceSymbol(tbl, id, symbol, d, text) ==
    {r \in tbl : r.symbol # symbol}
        \cup {[id |-> id, symbol |-> symbol, date |-> d, signal_data |-> text]}

\* INSERT OR IGNORE: a row that conflicts on UNIQUE(symbol, date) stays and
\* the new one is dropped.
InsertOrIgnore(tbl, id, symbol, d, text) ==
    IF Matching(tbl, symbol, d) # {} THEN tbl
    ELSE tbl \cup {[id |-> id, symbol |-> symbol, date |-> d, signal_data |-> text]}

\* INSERT OR REPLACE INTO signals (symbol, date, signal_data): the rows that
\* conflict on UNIQUE(symbol, date) are deleted, then the new row is inserted
\* under a fresh AUTOINCREMENT id.
InsertOrReplace(tbl, id, symbol, d, text) ==
    (tbl \ Matching(tbl, symbol, d))
        \cup {[id |-> id, symbol |-> symbol, date |-> d, signal_data |-> text]}

\* An upsert that updates the stored record key by key: the keys the new
\* record lacks keep their old value.
save_signal_merge(tbl, id, symbol, signal_data, signal_date, io) ==
    LET d == ResolveDate(signal_date)
        m == Matching(tbl, symbol, d)
        old == IF m = {} THEN EmptyDict
               ELSE json_loads((CHOOSE r \in m : TRUE).signal_data)
        new == [k \in (DOMAIN old) \cup (DOMAIN signal_data) |->
                   IF k \in DOMAIN signal_data THEN signal_data[k] ELSE old[k]]
    IN
    IF io /\ JsonSerializable(signal_data)
    THEN [ok |-> TRUE, rows |-> InsertOrReplace(tbl, id, symbol, d, json_dumps(new))]
    ELSE [ok |-> FALSE, rows |-> tbl]

\* save_signal: True and the new table, or False and the table as it was
\* (json.dumps or sqlite3 raised inside the try block).
save_signal(tbl, id, symbol, signal_data, signal_date, io) ==
    LET d == ResolveDate(signal_date) IN
    IF io /\ JsonSerializable(signal_data)
    THEN [ok |-> TRUE,
          rows |-> InsertOrReplace(tbl, id, symbol, d, json_dumps(signal_data))]
    ELSE [ok |-> FALSE, rows |-> tbl]

\* A store that keeps the decoded dicts and hands out the dict it holds: a
\* key the caller assigns in a returned record is assigned in the row.
AssignReturnedShared(tbl, symbols, d, k) ==
    {IF r.symbol \in symbols /\ r.date = d
     THEN [r EXCEPT !.signal_data =
               json_dumps(DictSet(json_loads(r.signal_data), k,
                                  IF k = "symbol" THEN r.symbol ELSE "database"))]
     ELSE r : r \in tbl}

\* The table after the caller assigned key k in the records returned for the
\* rows (symbols, d).  A row holds JSON text, and json.loads builds a new
\* dict from it on every read: the assignment changes that dict only.
AssignReturned(tbl, symbols, d, k) == tbl

\* A get_signal that reports a failed read as an error record.
get_signal_error_dict(tbl, symbol, signal_date, io) ==
    LET m == Matching(tbl, symbol, ResolveDate(signal_date)) IN
    IF ~io THEN [error |-> "unable to open database file"]
    ELSE IF m # {}
    THEN json_loads((CHOOSE r \in m : \A q \in m : r.id <= q.id).signal_data)
    ELSE None

\* get_signal: the decoded record of the first matching row, or None.
get_signal(tbl, symbol, signal_date, io) ==
    LET m == Matching(tbl, symbol, ResolveDate(signal_date)) IN
    IF io /\ m # {}
    THEN json_loads((CHOOSE r \in m : \A q \in m : r.id <= q.id).signal_data)
    ELSE None

\* ORDER BY symbol: the symbols in the order sqlite's BINARY collation gives.
SymbolOrder == <<"AAPL", "MSFT">>

\* get_signals_by_date: the decoded records of one date in symbol order, each
\* with its symbol key set from the row; the empty list when sqlite3 raised.
RECURSIVE ByDateFrom(_, _, _)
ByDateFrom(tbl, d, i) ==
    IF i > Len(SymbolOrder) THEN << >>
    ELSE LET m == Matching(tbl, SymbolOrder[i], d) IN
         (IF m = {} THEN << >>
          ELSE <<DictSet(json_loads((CHOOSE r \in m : TRUE).signal_data),
                         "symbol", SymbolOrder[i])>>)
         \o ByDateFrom(tbl, d, i + 1)

get_signals_by_date(tbl, signal_date, io) ==
    IF io THEN ByDateFrom(tbl, ResolveDate(signal_date), 1) ELSE << >>

\* signal_exists: SELECT COUNT(*) ... > 0.
signal_exists(tbl, symbol, signal_date, io) ==
    io /\ Cardinality(Matching(tbl, symbol, ResolveDate(signal_date))) > 0

\* A pass that skips a symbol whose lookup failed instead of reporting it
\* missing.
PartitionPassSkipFailed(tbl, symbol, signal_date, io, cached, missing) ==
    LET signal_data == get_signal(tbl, symbol, signal_date, io) IN
    IF ~io THEN [cached |-> cached, missing |-> missing]
    ELSE IF Truthy(signal_data)
    THEN [cached |-> Append(cached, DictSet(signal_data, "symbol", symbol)),
          missing |-> missing]
    ELSE [cached |-> cached, missing |-> Append(missing, symbol)]

\* A pass that puts the symbol at the head of its list.
PartitionPassPrepend(tbl, symbol, signal_date, io, cached, missing) ==
    LET signal_data == get_signal(tbl, symbol, signal_date, io) IN
    IF Truthy(signal_data)
    THEN [cached |-> <<DictSet(signal_data, "symbol", symbol)>> \o cached,
          missing |-> missing]
    ELSE [cached |-> cached, missing |-> <<symbol>> \o missing]

\* One pass of the loop of get_portfolio_signals (lines 188-194): get_signal
\* on a connection of its own, then the append to cached_signals or to
\* missing_symbols.  tbl is the table when the pass runs and io tells whether
\* the lookup reached the database.
PartitionPass(tbl, symbol, signal_date, io, cached, missing) ==
    LET signal_data == get_signal(tbl, symbol, signal_date, io) IN
    IF Truthy(signal_data)
    THEN [cached |-> Append(cached, DictSet(signal_data, "symbol", symbol)),
          missing |-> missing]
    ELSE [cached |-> cached, missing |-> Append(missing, symbol)]

\* delete_old_signals: DELETE ... WHERE date < date('now', '-N days').  now is
\* sqlite's date('now'), the UTC date, which is the day before or after
\* date.today() for part of every day away from UTC.  A negative N makes the
\* modifier '--N days' invalid: date() is NULL and no row compares below it.
delete_old_signals(tbl, days_to_keep, now, io) ==
    LET old == IF days_to_keep < 0 THEN {}
               ELSE {r \in tbl : r.date < now - days_to_keep} IN
    IF io THEN [deleted |-> Cardinality(old), rows |-> tbl \ old]
    ELSE [deleted |-> 0, rows |-> tbl]

\* The three entries of the statistics in the order their SELECT statements
\* run, and the result of the except clause.  The two file-size entries of the
\* result are left out.
StatsKeys == <<"total_signals", "unique_symbols", "signals_today">>
NoStats == [total_signals |-> 0, unique_symbols |-> 0, signals_today |-> 0]

\* The k-th SELECT of get_database_stats on the table as it then is:
\* COUNT(*) (line 239), COUNT(DISTINCT symbol) (243) and COUNT(*) WHERE
\* date = date.today() (247-248).  No transaction spans the three statements.
stats_select(k, tbl) ==
    CASE k = 1 -> Cardinality(tbl)
      [] k = 2 -> Cardinality({r.symbol : r \in tbl})
      [] k = 3 -> Cardinality({r \in tbl : r.date = today})

\* ------------------------------------------------------ RSISignalGenerator
\* The frame generate_signals works on, after lines 241-247 have added the
\* indicator columns: one row [macd, sig, rsi] per bar, oldest first.  MACD
\* and its signal line are integers on a common scale; rsi is in hundredths
\* of a point, or NaN where the rolling window is not yet full.
\* The frame is the input of the lines from 249 on; whether they are reached
\* is decided by calculate_macd below.
NaN == -1

\* The names src/config.py binds.  Reading any other attribute of the module
\* raises AttributeError.
ConfigNames ==
    {"RSI_PERIOD", "OVERSOLD_THRESHOLD", "OVERBOUGHT_THRESHOLD",
     "DEFAULT_PERIOD", "DEFAULT_STOCKS", "TECH_STOCKS", "FINANCIAL_STOCKS",
     "HEALTHCARE_STOCKS", "ENERGY_STOCKS", "MAX_RECENT_DAYS",
     "MAX_DISPLAY_ROWS", "REQUEST_TIMEOUT", "RETRY_ATTEMPTS",
     "PRICE_DECIMAL_PLACES", "RSI_DECIMAL_PLACES", "STRONG_BUY_THRESHOLD",
     "STRONG_SELL_THRESHOLD"}

\* calculate_macd reads config.MACD_FAST_PERIOD (line 76), MACD_SLOW_PERIOD
\* (77) and MACD_SIGNAL_PERIOD (83) before it returns: it delivers the MACD
\* columns only when the module binds the three names, and raises
\* AttributeError otherwise.
calculate_macd_delivers ==
    {"MACD_FAST_PERIOD", "MACD_SLOW_PERIOD", "MACD_SIGNAL_PERIOD"}
        \subseteq ConfigNames
Abs(x) == IF x < 0 THEN -x ELSE x
Hist(data, i) == data[i].macd - data[i].sig

\* round(current_rsi, config.RSI_DECIMAL_PLACES), hundredths to tenths.
\* current_rsi is data['RSI'].iloc[-1], a numpy.float64, whose __round__
\* multiplies by 10, rounds the product to the nearest whole number with ties
\* to the even one, and divides by 10.  x stands for the float nearest to
\* x / 100; for every x from 0 to 10000 the product of that float and 10 is
\* exactly x / 10, so a value ending in 5 is a tie and goes to the even tenth.
RoundRSI(x) ==
    IF x = NaN THEN NaN
    ELSE IF x % 10 < 5 THEN x \div 10
    ELSE IF x % 10 > 5 THEN x \div 10 + 1
    ELSE IF (x \div 10) % 2 = 0 THEN x \div 10
    ELSE x \div 10 + 1

\* A categorisation that counts a value on the zero line as above or below it.
determine_macd_position_nonstrict(macd, signal) ==
    IF macd > signal /\ macd >= 0 /\ signal >= 0 THEN "Golden Cross"
    ELSE IF macd < signal /\ macd <= 0 /\ signal <= 0 THEN "Dead Cross"
    ELSE IF macd >= 0 /\ signal >= 0 THEN "Up Trend"
    ELSE IF macd <= 0 /\ signal <= 0 THEN "Down Trend"
    ELSE "Mixed Signals"

determine_macd_position(macd, signal) ==
    IF macd > signal /\ macd > 0 /\ signal > 0 THEN "Golden Cross"
    ELSE IF macd < signal /\ macd < 0 /\ signal < 0 THEN "Dead Cross"
    ELSE IF macd > 0 /\ signal > 0 THEN "Up Trend"
    ELSE IF macd < 0 /\ signal < 0 THEN "Down Trend"
    ELSE "Mixed Signals"

\* The row masks of lines 254-269; a comparison with shift(1) is False on
\* the first row, where the shifted value is NaN.
macd_bullish(data, i) ==
    data[i].macd > data[i].sig /\ i > 1 /\ data[i - 1].macd <= data[i - 1].sig
macd_bearish(data, i) ==
    data[i].macd < data[i].sig /\ i > 1 /\ data[i - 1].macd >= data[i - 1].sig
strong_bullish(data, i) ==
    data[i].macd > data[i].sig /\ data[i].macd > 0 /\ data[i].sig > 0
strong_bearish(data, i) ==
    data[i].macd < data[i].sig /\ data[i].macd < 0 /\ data[i].sig < 0

\* The Signal column of row i after lines 250-277, assignment by assignment.
IndicatorSignal(data, i) ==
    LET s0 == "HOLD"
        s1 == IF macd_bullish(data, i) THEN "BUY" ELSE s0
        s2 == IF macd_bearish(data, i) THEN "SELL" ELSE s1
        s3 == IF strong_bullish(data, i) /\ i > 1
                 /\ Hist(data, i) > Hist(data, i - 1)
              THEN "STRONG_BUY" ELSE s2
        s4 == IF strong_bearish(data, i) /\ i > 1
                 /\ Hist(data, i) < Hist(data, i - 1)
              THEN "STRONG_SELL" ELSE s3
        s5 == IF data[i].macd > data[i].sig /\ s4 = "HOLD" THEN "BUY" ELSE s4
        s6 == IF data[i].macd < data[i].sig /\ s5 = "HOLD" THEN "SELL" ELSE s5
    IN s6

\* get_calendar_events: each lookup tells "tomorrow", "other" or "fail"; a
\* lookup that raises leaves its flag False.
get_calendar_events(cal) ==
    [ex_date_tomorrow |-> cal.ex = "tomorrow",
     earnings_tomorrow |-> cal.earn = "tomorrow"]

\* The Signal column after the calendar override of lines 279-287.
SignalColumn(data, check_calendar_events, cal) ==
    LET ev == get_calendar_events(cal) IN
    [i \in DOMAIN data |->
        IF check_calendar_events /\ i = Len(data)
           /\ (ev.ex_date_tomorrow \/ ev.earnings_tomorrow)
        THEN "SELL" ELSE IndicatorSignal(data, i)]

\* get_stock_data: the loop `for attempt in range(config.RETRY_ATTEMPTS)`.
\* attempts[k] tells what the k-th call of stock.history does: "raise",
\* "empty" (an empty frame) or "data" (the frame bars, which may be empty).
RETRY_ATTEMPTS == 3
\* A loop that allows one attempt more than config.RETRY_ATTEMPTS.
fetch_attempt_one_more(attempts, bars, k) ==
    IF attempts[k] = "data" /\ bars # << >> THEN [done |-> TRUE, data |-> bars]
    ELSE IF attempts[k] = "raise" /\ k < RETRY_ATTEMPTS + 1
         THEN [done |-> FALSE, data |-> << >>]
    ELSE [done |-> TRUE, data |-> << >>]
\* A loop that tries again after an empty frame as it does after an exception.
fetch_attempt_retry_empty(attempts, bars, k) ==
    IF attempts[k] = "data" /\ bars # << >> THEN [done |-> TRUE, data |-> bars]
    ELSE IF k < RETRY_ATTEMPTS THEN [done |-> FALSE, data |-> << >>]
    ELSE [done |-> TRUE, data |-> << >>]
\* The k-th pass of the loop (attempt = k - 1): a non-empty frame is returned,
\* an empty one ends the call with an empty frame, an exception ends it with
\* an empty frame on the last pass and leads to the next pass otherwise.
fetch_attempt(attempts, bars, k) ==
    IF attempts[k] = "data" /\ bars # << >> THEN [done |-> TRUE, data |-> bars]
    ELSE IF attempts[k] = "raise" /\ k < RETRY_ATTEMPTS
         THEN [done |-> FALSE, data |-> << >>]
    ELSE [done |-> TRUE, data |-> << >>]
RECURSIVE FetchFrom(_, _, _)
FetchFrom(attempts, bars, k) ==
    IF k > RETRY_ATTEMPTS THEN << >>
    ELSE LET pass == fetch_attempt(attempts, bars, k) IN
         IF pass.done THEN pass.data ELSE FetchFrom(attempts, bars, k + 1)
get_stock_data(attempts, bars) == FetchFrom(attempts, bars, 1)

\* config.MAX_RECENT_DAYS
MAX_RECENT_DAYS == 30
\* The rows of data.tail(n).
TailRows(data, n) == {i \in DOMAIN data : i > Len(data) - n}
Sum(f, S) ==
    LET RECURSIVE Acc(_)
        Acc(T) == IF T = {} THEN 0
                  ELSE LET x == CHOOSE y \in T : TRUE IN f[x] + Acc(T \ {x})
    IN Acc(S)
\* calculate_rsi on a list of closes (integers), position 1 the oldest.
\* delta = prices.diff() is NaN at the first position; NaN > 0 and NaN < 0 are
\* False, so where(..., 0) puts 0 there: the gain and loss columns have a
\* value at every position.
GainAt(prices, i) ==
    IF i > 1 /\ prices[i] - prices[i - 1] > 0 THEN prices[i] - prices[i - 1]
    ELSE 0
LossAt(prices, i) ==
    IF i > 1 /\ prices[i] - prices[i - 1] < 0 THEN prices[i - 1] - prices[i]
    ELSE 0
\* rolling(window).mean() takes the window positions ending at i and is NaN
\* until the window holds `window` values; the two means share the divisor,
\* so gain / loss is the quotient of the two window sums.
Window(i, window) == (i - window + 1)..i
GainSum(prices, i, window) ==
    Sum([k \in Window(i, window) |-> GainAt(prices, k)], Window(i, window))
LossSum(prices, i, window) ==
    Sum([k \in Window(i, window) |-> LossAt(prices, k)], Window(i, window))
RSI_PERIOD == 14

\* The quotient gain / loss itself, scaled like an RSI, in place of
\* 100 - 100 / (1 + rs).
calculate_rsi_ratio(prices, rsi_period) ==
    [i \in 1..Len(prices) |->
        IF i < rsi_period THEN NaN
        ELSE LET g == GainSum(prices, i, rsi_period)
                 l == LossSum(prices, i, rsi_period) IN
             IF l = 0 THEN (IF g = 0 THEN NaN ELSE 10000)
             ELSE (10000 * g) \div l]

\* calculate_rsi: 100 - 100 / (1 + rs) = 100 gain / (gain + loss), in
\* hundredths of a point, cut to a whole number of hundredths.  loss = 0 makes
\* rs infinite (RSI 100) when gain > 0 and 0/0 = NaN when gain = 0.
calculate_rsi(prices, rsi_period) ==
    [i \in 1..Len(prices) |->
        IF i < rsi_period THEN NaN
        ELSE LET g == GainSum(prices, i, rsi_period)
                 l == LossSum(prices, i, rsi_period) IN
             IF l = 0 THEN (IF g = 0 THEN NaN ELSE 10000)
             ELSE (10000 * g) \div (g + l)]

\* abs(current_macd - current_macd_signal) > data['MACD'].std() * 0.5, with
\* std the sample deviation (NaN, so False, on a single row):
\* 4 d^2 n (n-1) > n sum(x^2) - sum(x)^2.
StrongDivergence(data) ==
    LET n == Len(data)
        d == Hist(data, n)
        sx == Sum([i \in DOMAIN data |-> data[i].macd], DOMAIN data)
        sxx == Sum([i \in DOMAIN data |-> data[i].macd * data[i].macd], DOMAIN data)
    IN n > 1 /\ 4 * d * d * n * (n - 1) > n * sxx - sx * sx

\* What a call that raises hands back: the exception, not a dict.
Raised == [raised |-> TRUE]
IsRaised(r) == DOMAIN r = {"raised"}
HasError(r) == "error" \in DOMAIN r

\* generate_signals from line 238 on, given the frame get_stock_data returned:
\* the error dict when no data came; otherwise the AttributeError of
\* calculate_macd (called at line 244), the IndexError of line 311, which
\* reads iloc[-2] of a one-row frame, the AttributeError of
\* config.MACD_DECIMAL_PLACES when the record is built (line 333), or the
\* signal record.  The keys currentPrice, calendarReasons, lastUpdated and
\* data of the record are left out.
signals_of_frame(symbol, data, cal, check_calendar_events) ==
    LET n == Len(data)
        col == SignalColumn(data, check_calendar_events, cal)
        calendar_events ==
            IF check_calendar_events THEN get_calendar_events(cal)
            ELSE [ex_date_tomorrow |-> FALSE, earnings_tomorrow |-> FALSE]
        current_signal == col[n]
        recent == TailRows(data, MAX_RECENT_DAYS)
        signal_strength ==
            IF current_signal \in {"STRONG_BUY", "STRONG_SELL"} THEN "STRONG"
            ELSE IF current_signal \in {"BUY", "SELL"}
                    /\ (Abs(Hist(data, n)) > Abs(Hist(data, n - 1))
                        \/ StrongDivergence(data))
                 THEN "STRONG" ELSE "NORMAL"
    IN
    IF data = << >> THEN [error |-> "No data available"]
    ELSE IF ~calculate_macd_delivers THEN Raised
    ELSE IF current_signal \in {"BUY", "SELL"} /\ n < 2 THEN Raised
    ELSE IF "MACD_DECIMAL_PLACES" \notin ConfigNames THEN Raised
    ELSE [symbol |-> symbol,
          currentRSI |-> RoundRSI(data[n].rsi),
          currentSignal |-> current_signal,
          signalStrength |-> signal_strength,
          currentMACD |-> data[n].macd,
          currentMACDSignal |-> data[n].sig,
          currentMACDHistogram |-> Hist(data, n),
          macdPosition |-> determine_macd_position(data[n].macd, data[n].sig),
          recentBuySignals |->
              Cardinality({i \in recent : col[i] \in {"BUY", "STRONG_BUY"}}),
          recentSellSignals |->
              Cardinality({i \in recent : col[i] \in {"SELL", "STRONG_SELL"}}),
          calendarEvents |-> calendar_events]

\* generate_signals(symbol) with the sources behaving as feed tells over the
\* whole call: the fetch of line 235, then the lines from 238 on.
generate_signals(symbol, feed, check_calendar_events) ==
    signals_of_frame(symbol, get_stock_data(feed.attempts, feed.bars),
                     feed.cal, check_calendar_events)

\* One pass of the loop of analyze_multiple_stocks (lines 358-361) once
\* generate_signals has ended: its result is appended; an exception of
\* generate_signals ends the call (raised) and no list is returned.
analyze_pass(signal_data, results) ==
    IF IsRaised(signal_data) THEN [raised |-> TRUE, results |-> << >>]
    ELSE [raised |-> FALSE, results |-> Append(results, signal_data)]

\* ------------------------------------------------------------------ app.py
\* symbol.upper().strip() on the symbols a request can carry; a blank symbol
\* is dropped by analyze_custom_stocks.
upper_strip(raw) ==
    CASE raw = "AAPL" -> "AAPL"
      [] raw = "aapl " -> "AAPL"
      [] raw = "MSFT" -> "MSFT"
      [] raw = " " -> ""
RECURSIVE clean_symbols(_)
clean_symbols(symbols) ==
    IF symbols = << >> THEN << >>
    ELSE IF upper_strip(Head(symbols)) # ""
         THEN <<upper_strip(Head(symbols))>> \o clean_symbols(Tail(symbols))
         ELSE clean_symbols(Tail(symbols))

\* One pass of the loop over missing_symbols (lines 176-180) once
\* generate_signals has ended: a result without an 'error' key is tagged
\* 'generated' and appended to results; an exception leaves the loop.
generate_missing_pass(result, results) ==
    IF IsRaised(result) THEN [raised |-> TRUE, results |-> << >>]
    ELSE IF ~HasError(result)
    THEN [raised |-> FALSE,
          results |-> Append(results, DictSet(result, "source", "generated"))]
    ELSE [raised |-> FALSE, results |-> results]

\* The response of a batch endpoint (lines 182-193 of analyze_custom_stocks,
\* 98-109 of get_portfolio_signals).  `results` is bound to the list object
\* analyze_data['cached'], so the records appended to results are in
\* analyze_data['cached'] as well: the loop that marks the cached results and
\* the cached_count both run over that one list.  hits is not part of the
\* response: it records how many of the returned records the store supplied.
batch_response(results, hits, missing_symbols) ==
    LET cached_list == results
        marked == [i \in DOMAIN cached_list |->
                      DictSet(cached_list[i], "source", "database")]
    IN [status |-> 200,
        stocks |-> marked,
        total_count |-> Len(marked),
        cached_count |-> Len(cached_list),
        generated_count |-> Len(missing_symbols),
        hits |-> hits]

\* The response of the except clause (lines 194-195), and of line 162 on an
\* empty list of symbols.
error_response(status) == [status |-> status, stocks |-> << >>, hits |-> 0]

\* --------------------------------------------------------- SignalScheduler
\* The keyword parameters SignalDatabase.delete_old_signals accepts.
DeleteParams == {"days_to_keep"}
CLEANUP_DAYS == 30

\* A cleanup job whose except clause raises the exception again.
cleanup_old_signals_reraise(tbl, now, io) ==
    [failed |-> TRUE, escaped |-> TRUE, rows |-> tbl]

\* cleanup_old_signals: self.db.delete_old_signals(days=30).  Python binds the
\* keyword before the body of delete_old_signals runs; a keyword the function
\* does not declare raises TypeError, which the job's except clause logs
\* without raising again.  failed tells that an exception occurred inside the
\* job, escaped that it left the job.
cleanup_old_signals(tbl, now, io) ==
    LET keyword == "days" IN
    IF keyword \in DeleteParams
    THEN [failed |-> FALSE, escaped |-> FALSE,
          rows |-> delete_old_signals(tbl, CLEANUP_DAYS, now, io).rows]
    ELSE [failed |-> TRUE, escaped |-> FALSE, rows |-> tbl]

\* The methods class RSISignalGenerator defines.
GeneratorMethods ==
    {"calculate_rsi", "calculate_macd", "determine_macd_position",
     "get_stock_data", "get_calendar_events", "generate_signals",
     "analyze_multiple_stocks"}

\* A scan job whose except clause logs the exception without raising again.
run_signal_scan_swallow(tbl, scan_symbols) ==
    [failed |-> scan_symbols # << >>, escaped |-> FALSE, rows |-> tbl]

\* run_signal_scan over the list load_scan_list returned: the early return on
\* an empty list; otherwise self.signal_generator.scan_market is looked up,
\* the AttributeError is logged and raised again, and no store operation has
\* run.
run_signal_scan(tbl, scan_symbols) ==
    IF scan_symbols = << >>
    THEN [failed |-> FALSE, escaped |-> FALSE, rows |-> tbl]
    ELSE IF "scan_market" \notin GeneratorMethods
    THEN [failed |-> TRUE, escaped |-> TRUE, rows |-> tbl]
    ELSE [failed |-> FALSE, escaped |-> FALSE, rows |-> tbl]

\* health_check: True, or False when a call inside it raised (its except
\* clause logs the exception); ok tells that none did.
health_check(ok) == ok

\* ------------------------------------------------------------ input sets
\* Records handed to save_signal: the empty dict, records with different key
\* sets, one that carries its own symbol key, one json.dumps rejects.
SignalRecords ==
    { EmptyDict,
      [currentSignal |-> "BUY"],
      [currentSignal |-> "SELL", currentRSI |-> 750, symbol |-> "MSFT"],
      [currentSignal |-> "BUY", lastUpdated |-> NotJson] }
DateArgs == Days \cup {NoDate}
SymbolLists == UNION {[1..n -> Symbols] : n \in 0..MaxLen}
DaysToKeep == -1..MaxDay
\* date('now') against date.today(): a day behind, the same day, a day ahead.
UtcDates == {today - 1, today, today + 1}

RawSymbols == {"AAPL", "aapl ", "MSFT", " "}
RawLists == UNION {[1..n -> RawSymbols] : n \in 0..MaxLen}

\* Rows of a short history.  The first row of every frame has MACD and
\* signal line 0 (both averages start at the first close) and the signal
\* line of the second row is 5/9 of its MACD (span 9); the RSI window of
\* 14 rows is not full.
Flat == [macd |-> 0, sig |-> 0, rsi |-> NaN]
Up == [macd |-> 9, sig |-> 5, rsi |-> NaN]
Down == [macd |-> -9, sig |-> -5, rsi |-> NaN]
NoEvents == [ex |-> "other", earn |-> "fail"]
ExDate == [ex |-> "tomorrow", earn |-> "other"]
\* What the price source does on each call, one call beyond the last the
\* loop can make.
Calls == 1..(RETRY_ATTEMPTS + 1)
AllOk == [k \in Calls |-> "data"]
AllRaise == [k \in Calls |-> "raise"]
SecondTry == [k \in Calls |-> IF k = 1 THEN "raise" ELSE "data"]
\* What the price and calendar sources hold for one symbol.
Feeds ==
    { [attempts |-> AllRaise, bars |-> <<Flat, Up>>, cal |-> NoEvents],
      [attempts |-> AllOk, bars |-> << >>, cal |-> NoEvents],
      [attempts |-> AllOk, bars |-> <<Flat>>, cal |-> ExDate],
      [attempts |-> SecondTry, bars |-> <<Flat, Up>>, cal |-> NoEvents],
      [attempts |-> AllOk, bars |-> <<Flat, Down>>, cal |-> ExDate] }
NoData == [attempts |-> AllOk, bars |-> << >>, cal |-> NoEvents]

\* Every way the price source can behave over the calls of one fetch.
AttemptPatterns == [Calls -> {"raise", "empty", "data"}]
FetchFeeds ==
    {[attempts |-> a, bars |-> b, cal |-> NoEvents] :
        a \in AttemptPatterns, b \in {<< >>, <<Flat, Up>>}}

\* Histories of up to MaxBars bars whose RSI window fills at the last bar
\* (a history of rsi_period bars): the RSI column is NaN before the last row.
\* The first row is Flat, and the signal line, an average of the MACD values
\* so far with positive weights, lies between the least and the greatest of
\* them.
MaxBars == 3
MacdLevels == -2..2
RsiValues == {NaN, 1500, 2500, 4500, 5500, 8500}
MacdRows == {[macd |-> m, sig |-> g, rsi |-> NaN] : m, g \in MacdLevels}
Realisable(bars) ==
    /\ bars[1] = Flat
    /\ \A i \in DOMAIN bars :
          /\ \E j \in 1..i : bars[j].macd <= bars[i].sig
          /\ \E j \in 1..i : bars[j].macd >= bars[i].sig
Histories ==
    UNION {{b \in [1..n -> MacdRows] : Realisable(b)} : n \in 1..MaxBars}
Frames ==
    {[b EXCEPT ![Len(b)].rsi = r] : b \in {h \in Histories : Len(h) > 1},
                                    r \in RsiValues} \cup {<<Flat>>}
CalendarLookups == {"tomorrow", "other", "fail"}
Calendars == [ex : CalendarLookups, earn : CalendarLookups]
SignalFeeds ==
    {[attempts |-> AllOk, bars |-> b, cal |-> c] : b \in Frames, c \in Calendars}

\* Close series: every short series over three price levels, for short
\* windows, and the series of RSI_PERIOD - 1 to RSI_PERIOD + 1 closes over two
\* levels, for the configured window.
MaxCloses == 4
ShortPeriods == {2, 3}
ShortSeries == UNION {[1..n -> 1..3] : n \in 0..MaxCloses}
LongSeries == UNION {[1..n -> 1..2] : n \in (RSI_PERIOD - 1)..(RSI_PERIOD + 1)}

\* Symbols as a URL path carries them.
RawPaths == {"AAPL", "aapl", "aapl ", "MSFT"}
\* A date more than CLEANUP_DAYS days before any date of the model, also
\* counted from the UTC date.
Stale == -(CLEANUP_DAYS + 2)
\* A symbol with a two-bar history and no calendar event.
Quoted == [attempts |-> AllOk, bars |-> <<Flat, Up>>, cal |-> NoEvents]

\* A symbol every call of the price source raises for.
Unreachable == [attempts |-> AllRaise, bars |-> <<Flat, Up>>, cal |-> NoEvents]
\* What the sources report while a batch is analysed: no data, a history, or
\* nothing but exceptions.
BatchFeeds == {NoData, Quoted, Unreachable}

\* A record a scan stored earlier in the day.
StoredRecord(s) ==
    [symbol |-> s, currentRSI |-> 250, currentSignal |-> "BUY",
     signalStrength |-> "NORMAL"]

\* ------------------------------------------------ main.py: the stock lists
\* line.strip().upper() on the lines a list file can hold.
strip_upper(line) ==
    CASE line = "aapl " -> "AAPL"
      [] line = " " -> ""
      [] OTHER -> line
startswith_hash(s) == s = "# MSFT"
RawLines == {"AAPL", "aapl ", "MSFT", " ", "# MSFT"}

\* [line.strip().upper() for line in file
\*      if line.strip() and not line.strip().startswith('#')]
RECURSIVE ReadSymbols(_)
ReadSymbols(lines) ==
    IF lines = << >> THEN << >>
    ELSE LET s == strip_upper(Head(lines)) IN
         (IF s # "" /\ ~startswith_hash(s) THEN <<s>> ELSE << >>)
             \o ReadSymbols(Tail(lines))

DEFAULT_STOCKS ==
    <<"AAPL", "MSFT", "GOOGL", "AMZN", "TSLA", "NVDA", "META", "NFLX", "JPM",
      "V">>

\* A list file: whether it exists, whether open() and the read succeed, and
\* its lines.
\* load_portfolio_stocks: the symbols of my_portfolio.txt, or the default
\* stocks when the file is missing or cannot be read.
load_portfolio_stocks(file) ==
    IF file.exists /\ file.readable THEN ReadSymbols(file.lines)
    ELSE DEFAULT_STOCKS

\* The optional list argument exclude_stocks: None, or a list.
NotGiven == [is_none |-> TRUE]
Given(list) == [is_none |-> FALSE, list |-> list]
\* exclude_stocks or []
or_empty(arg) == IF arg.is_none THEN << >> ELSE arg.list

\* A scan list filtered line by line before the lines are normalised.
load_scan_list_filter_raw(file, exclude_stocks) ==
    LET ex == or_empty(exclude_stocks)
        excluded == {ex[i] : i \in DOMAIN ex}
    IN
    IF file.exists /\ file.readable
    THEN ReadSymbols(SelectSeq(file.lines, LAMBDA line : line \notin excluded))
    ELSE << >>

\* load_scan_list: the symbols of scan_list.txt that are not in
\* exclude_stocks (None counts as the empty list); the empty list when the
\* file is missing or cannot be read.
load_scan_list(file, exclude_stocks) ==
    LET ex == or_empty(exclude_stocks)
        excluded == {ex[i] : i \in DOMAIN ex}
        all_stocks == ReadSymbols(file.lines)
    IN
    IF file.exists /\ file.readable
    THEN SelectSeq(all_stocks, LAMBDA stock : stock \notin excluded)
    ELSE << >>

\* ------------------------------------- main.py: the market-scan notification
MAX_MESSAGE_LENGTH == 4000
FOOTER_RESERVE == 300

\* len() of the fixed texts format_scan_telegram_message and
\* format_telegram_message put into a message.
PieceLen(piece) ==
    CASE piece = "alert" -> 23               \* "🔍 *Market Scan Alert*\n\n"
      [] piece = "buy_header" -> 23          \* "🟢 *Buy Signals Found:*\n"
      [] piece = "sell_header" -> 24         \* "🔴 *Sell Signals Found:*\n"
      [] piece = "continued" -> 32           \* "📋 *Continued in next message...*"
      [] piece = "alert_continued" -> 35     \* "🔍 *Market Scan Alert (continued)*\n\n"
      [] piece = "buy_continued" -> 29       \* "🟢 *Buy Signals (continued):*\n"
      [] piece = "sell_continued" -> 30      \* "🔴 *Sell Signals (continued):*\n"
      [] piece = "footer" -> 32              \* "📅 *Scanned:* YYYY-mm-dd HH:MM:SS"
      [] piece = "newline" -> 1
      [] piece = "calendar" -> 11            \* " (Calendar)"
      [] piece = "header" -> 152             \* alert title, table head, rule
      [] piece = "table_end" -> 37           \* "```\n\n📋 *Continued in next message...*"
      [] piece = "table_continued" -> 39     \* "📊 *Portfolio Signals (continued):*\n```\n"
      [] piece = "fence" -> 5                \* "```\n\n"
      [] piece = "buy_text" -> 17            \* "🟢 *Buy Signals:* "
      [] piece = "sell_text" -> 18           \* "🔴 *Sell Signals:* "
      [] piece = "indent" -> 3               \* "   "
      [] piece = "none" -> 32                \* "🟡 *No active buy/sell signals*\n\n"
      [] piece = "generated" -> 34           \* "📅 *Generated:* YYYY-mm-dd HH:MM:SS"

\* len() of a macdPosition text: "N/A" itself, and two texts named by their
\* length.
MacdLen(macd_position) ==
    CASE macd_position = "N/A" -> 3
      [] macd_position = "x460" -> 460
      [] macd_position = "x3650" -> 3650
      [] macd_position = "x3920" -> 3920

\* f"{rsi:.1f}" of an RSI given in hundredths, in tenths.  The format rounds
\* the float itself, the one nearest to rsi / 100, correctly: ..25 and ..75 are
\* floats themselves, exact ties, which go to the even digit; any other value
\* ending in 5 goes down when its float lies below it, which depends on the
\* power of two the value lies above.  TieDown(x) tells the endings that go
\* down for values from 0 to 100.
TieDown(x) ==
    IF x < 100 THEN {15, 25, 35, 85, 95}
    ELSE IF x < 200 THEN {15, 25, 45, 65, 95}
    ELSE IF x < 400 THEN {5, 15, 25, 55, 65}
    ELSE IF x < 800 THEN {5, 25, 35, 55, 85}
    ELSE IF x < 1600 THEN {25, 35, 45, 85, 95}
    ELSE IF x < 3200 THEN {15, 25, 45, 65, 95}
    ELSE IF x < 6400 THEN {5, 15, 25, 55, 65}
    ELSE {5, 25, 35, 55, 85}
FormatTenths(x) ==
    IF (x % 100) \in TieDown(x) THEN x \div 10 ELSE (x + 5) \div 10

\* len(f"{rsi:.1f}"): "nan" for a NaN.
RsiLen(rsi) ==
    IF rsi = NaN THEN 3
    ELSE IF FormatTenths(rsi) >= 1000 THEN 5
    ELSE IF FormatTenths(rsi) >= 100 THEN 4
    ELSE 3

\* A message under construction: its pieces in order and len() of its text.
Text(pieces, len) == [pieces |-> pieces, len |-> len]
Fixed(piece) == [piece |-> piece]
Plus(message, piece, n) ==
    Text(Append(message.pieces, piece), message.len + n)
PlusFixed(message, piece) == Plus(message, Fixed(piece), PieceLen(piece))

\* signal_line = f"• {symbol} (RSI: {rsi:.1f}, {macd_position}){reason}\n"
SignalLine(result) ==
    LET reason == IF result.currentSignal = "SELL" /\ result.calendarReasons # << >>
                  THEN PieceLen("calendar") ELSE 0
    IN [piece |-> "line", side |-> result.currentSignal,
        symbol |-> result.symbol,
        len |-> 2 + Len(result.symbol) + 7 + RsiLen(result.currentRSI) + 2
                    + MacdLen(result.macdPosition) + 1 + reason + 1]

\* buy_signals / sell_signals: the lines of the non-error results labelled
\* `side`, in the order of the results.
RECURSIVE SignalsOf(_, _)
SignalsOf(results, side) ==
    IF results = << >> THEN << >>
    ELSE LET result == Head(results) IN
         (IF "error" \notin DOMAIN result /\ result.currentSignal = side
          THEN <<SignalLine(result)>> ELSE << >>)
             \o SignalsOf(Tail(results), side)

ContinuedHead(side) ==
    PlusFixed(PlusFixed(Text(<< >>, 0), "alert_continued"),
              IF side = "BUY" THEN "buy_continued" ELSE "sell_continued")

\* A chunking loop that starts the next message without the line that did
\* not fit.
RECURSIVE AddSignalsDropOverflow(_, _, _, _)
AddSignalsDropOverflow(side, signals, messages, current_message) ==
    IF signals = << >> THEN [messages |-> messages, current |-> current_message]
    ELSE LET signal_line == Head(signals) IN
         IF current_message.len + signal_line.len > MAX_MESSAGE_LENGTH - FOOTER_RESERVE
         THEN AddSignalsDropOverflow(side, Tail(signals),
                  Append(messages,
                         PlusFixed(PlusFixed(current_message, "newline"), "continued")),
                  ContinuedHead(side))
         ELSE AddSignalsDropOverflow(side, Tail(signals), messages,
                  Plus(current_message, signal_line, signal_line.len))

\* The loop over buy_signals (or sell_signals): a line that would take the
\* message past MAX_MESSAGE_LENGTH - 300 closes the message and opens a
\* continuation that starts with that line.
RECURSIVE AddSignals(_, _, _, _)
AddSignals(side, signals, messages, current_message) ==
    IF signals = << >> THEN [messages |-> messages, current |-> current_message]
    ELSE LET signal_line == Head(signals) IN
         IF current_message.len + signal_line.len > MAX_MESSAGE_LENGTH - FOOTER_RESERVE
         THEN AddSignals(side, Tail(signals),
                  Append(messages,
                         PlusFixed(PlusFixed(current_message, "newline"), "continued")),
                  Plus(ContinuedHead(side), signal_line, signal_line.len))
         ELSE AddSignals(side, Tail(signals), messages,
                  Plus(current_message, signal_line, signal_line.len))

\* current_message.rstrip("\n"): a finished section ends in the newline of its
\* last line and the blank line after it.
rstrip_newlines(message) ==
    Text(SubSeq(message.pieces, 1, Len(message.pieces) - 1), message.len - 2)

\* format_scan_telegram_message(results): the message chunks, << >> when no
\* non-error result is labelled BUY or SELL.
format_scan_telegram_message(results) ==
    LET buy_signals == SignalsOf(results, "BUY")
        sell_signals == SignalsOf(results, "SELL")
        start == [messages |-> << >>,
                  current |-> PlusFixed(Text(<< >>, 0), "alert")]
        bought ==
            IF buy_signals = << >> THEN start
            ELSE LET b == AddSignals("BUY", buy_signals, start.messages,
                                     PlusFixed(start.current, "buy_header"))
                 IN [messages |-> b.messages,
                     current |-> PlusFixed(b.current, "newline")]
        headed ==
            IF bought.current.len + PieceLen("sell_header")
                   > MAX_MESSAGE_LENGTH - FOOTER_RESERVE
            THEN [messages |-> Append(bought.messages,
                                      PlusFixed(bought.current, "continued")),
                  current |-> PlusFixed(PlusFixed(Text(<< >>, 0), "alert_continued"),
                                        "sell_header")]
            ELSE [messages |-> bought.messages,
                  current |-> PlusFixed(bought.current, "sell_header")]
        sold ==
            IF sell_signals = << >> THEN bought
            ELSE LET s == AddSignals("SELL", sell_signals, headed.messages,
                                     headed.current)
                 IN [messages |-> s.messages,
                     current |-> PlusFixed(s.current, "newline")]
    IN
    IF buy_signals = << >> /\ sell_signals = << >> THEN << >>
    ELSE IF sold.current.len + PieceLen("footer") > MAX_MESSAGE_LENGTH
    THEN sold.messages \o <<rstrip_newlines(sold.current),
                            PlusFixed(Text(<< >>, 0), "footer")>>
    ELSE Append(sold.messages, PlusFixed(sold.current, "footer"))

\* ------------------------------------- main.py: the portfolio notification
TABLE_RESERVE == 200
LINE_LENGTH == 500
Max(a, b) == IF a >= b THEN a ELSE b

\* len(signal) of a label.
SignalLen(signal) ==
    CASE signal = "BUY" -> 3
      [] signal = "HOLD" -> 4
      [] signal = "SELL" -> 4
      [] signal = "STRONG_BUY" -> 10
      [] signal = "STRONG_SELL" -> 11

\* len(f"{price:.2f}") of a price given in cents.
PriceLen(price) ==
    IF price >= 100000000 THEN 10
    ELSE IF price >= 10000000 THEN 9
    ELSE IF price >= 1000000 THEN 8
    ELSE IF price >= 100000 THEN 7
    ELSE IF price >= 10000 THEN 6
    ELSE IF price >= 1000 THEN 5
    ELSE 4

\* f"{symbol:<6} {signal_emoji}{signal:<5} {rsi:<6.1f} ${price:<9.2f}
\* {macd_short:<15}" and the newline after it; macd_short has at most 15
\* characters.
TableRow(result) ==
    [piece |-> "row", symbol |-> result.symbol,
     len |-> Max(6, Len(result.symbol)) + 1 + 1
                 + Max(5, SignalLen(result.currentSignal)) + 1
                 + Max(6, RsiLen(result.currentRSI)) + 1 + 1
                 + Max(9, PriceLen(result.currentPrice)) + 1 + 15 + 1]

\* table_rows: a row for every non-error result.
RECURSIVE RowsOf(_)
RowsOf(results) ==
    IF results = << >> THEN << >>
    ELSE (IF "error" \notin DOMAIN Head(results)
          THEN <<TableRow(Head(results))>> ELSE << >>)
             \o RowsOf(Tail(results))

\* len(f"{symbol} (RSI: {rsi:.1f}, {macd_position}){reason}")
SummaryLen(result) ==
    Len(result.symbol) + 7 + RsiLen(result.currentRSI) + 2
        + MacdLen(result.macdPosition) + 1
        + (IF result.currentSignal = "SELL" /\ result.calendarReasons # << >>
           THEN PieceLen("calendar") ELSE 0)

\* buy_signals / sell_signals of format_telegram_message, as lengths.
RECURSIVE SummariesOf(_, _)
SummariesOf(results, side) ==
    IF results = << >> THEN << >>
    ELSE LET result == Head(results) IN
         (IF "error" \notin DOMAIN result /\ result.currentSignal = side
          THEN <<SummaryLen(result)>> ELSE << >>)
             \o SummariesOf(Tail(results), side)

\* The loop that chunks the buy (or sell) summaries, on lengths: a chunk is
\* its length and the number of ", " characters at its end, which
\* rstrip(", ") takes off.  The chunk is closed when the next summary would
\* take the line past 500 characters, also when it is still empty; a summary
\* that fits is joined with ", " after it and ", " once more.
RECURSIVE SummaryChunks(_, _, _, _)
SummaryChunks(text, signals, chunks, current_chunk) ==
    IF signals = << >>
    THEN IF current_chunk.len > 0
         THEN Append(chunks, current_chunk.len - current_chunk.trail)
         ELSE chunks
    ELSE LET signal == Head(signals)
             test_chunk == IF current_chunk.len > 0
                           THEN current_chunk.len + signal + 2
                           ELSE signal
         IN
         IF PieceLen(text) + test_chunk > LINE_LENGTH
         THEN SummaryChunks(text, Tail(signals),
                  Append(chunks, current_chunk.len - current_chunk.trail),
                  [len |-> signal, trail |-> 0])
         ELSE SummaryChunks(text, Tail(signals), chunks,
                  IF current_chunk.len > 0
                  THEN [len |-> test_chunk + 2, trail |-> 4]
                  ELSE [len |-> signal, trail |-> 0])

\* The lines of a summary: the first chunk after buy_text (or sell_text), the
\* others indented, each with its newline.
RECURSIVE AddChunks(_, _, _, _)
AddChunks(text, chunks, i, current_message) ==
    IF i > Len(chunks) THEN current_message
    ELSE AddChunks(text, chunks, i + 1,
             Plus(current_message,
                  [piece |-> "summary", text |-> text, len |-> chunks[i]],
                  PieceLen(IF i = 1 THEN text ELSE "indent") + chunks[i] + 1))

\* The loop over table_rows: a row that would take the message past
\* MAX_MESSAGE_LENGTH - 200 closes the message and opens a continuation that
\* starts with that row.
RECURSIVE AddRows(_, _, _)
AddRows(table_rows, messages, current_message) ==
    IF table_rows = << >>
    THEN [messages |-> messages, current |-> current_message]
    ELSE LET row == Head(table_rows) IN
         IF current_message.len + row.len > MAX_MESSAGE_LENGTH - TABLE_RESERVE
         THEN AddRows(Tail(table_rows),
                  Append(messages, PlusFixed(current_message, "table_end")),
                  Plus(PlusFixed(Text(<< >>, 0), "table_continued"), row, row.len))
         ELSE AddRows(Tail(table_rows), messages,
                  Plus(current_message, row, row.len))

\* The buy (or sell) summary: its lines and an empty line, nothing when
\* there is no such signal.
AddSummary(text, signals, current_message) ==
    IF signals = << >> THEN current_message
    ELSE PlusFixed(AddChunks(text,
                       SummaryChunks(text, signals, << >>,
                                     [len |-> 0, trail |-> 0]),
                       1, current_message),
                   "newline")

\* "No active buy/sell signals" when there is neither.
AddNone(buy_signals, sell_signals, current_message) ==
    IF buy_signals = << >> /\ sell_signals = << >>
    THEN PlusFixed(current_message, "none") ELSE current_message

\* The footer joins the last message, or follows it as a message of its own
\* when that would take it past MAX_MESSAGE_LENGTH; the message then loses
\* the empty line at its end.
AddFooter(messages, current_message) ==
    IF current_message.len + PieceLen("generated") > MAX_MESSAGE_LENGTH
    THEN messages
             \o <<Text(current_message.pieces, current_message.len - 2),
                  PlusFixed(Text(<< >>, 0), "generated")>>
    ELSE Append(messages, PlusFixed(current_message, "generated"))

\* format_telegram_message(results): the message chunks of the portfolio
\* alert, never the empty list.
format_telegram_message(results) ==
    LET table == AddRows(RowsOf(results), << >>,
                         PlusFixed(Text(<< >>, 0), "header"))
    IN
    AddFooter(table.messages,
        AddNone(SummariesOf(results, "BUY"), SummariesOf(results, "SELL"),
            AddSummary("sell_text", SummariesOf(results, "SELL"),
                AddSummary("buy_text", SummariesOf(results, "BUY"),
                    PlusFixed(table.current, "fence")))))

\* --------------------------------------------- main.py: sending the chunks
\* load_telegram_config() gives the configuration or None: `configured`.
\* send_telegram_notifications(results): the chunks it sets out to send, none
\* without a Telegram configuration.
send_telegram_notifications(results, configured) ==
    IF configured THEN format_telegram_message(results) ELSE << >>

\* send_scan_telegram_notifications(scan_results): the chunks it sets out to
\* send, none without a Telegram configuration.
send_scan_telegram_notifications(scan_results, configured) ==
    IF configured THEN format_scan_telegram_message(scan_results) ELSE << >>

\* main(), lines 839-845: the scan found a BUY or a SELL.
scan_found(scan_results) ==
    LET buy_count == Len(SelectSeq(scan_results,
            LAMBDA r : "error" \notin DOMAIN r /\ r.currentSignal = "BUY"))
        sell_count == Len(SelectSeq(scan_results,
            LAMBDA r : "error" \notin DOMAIN r /\ r.currentSignal = "SELL"))
    IN buy_count > 0 \/ sell_count > 0

\* main(): the scan notification is asked for only when the scan found a BUY
\* or a SELL.
main_scan_notification(scan_results, configured) ==
    IF scan_found(scan_results)
    THEN send_scan_telegram_notifications(scan_results, configured)
    ELSE << >>

\* The users of the configuration, and what asyncio.run(send_telegram_message
\* (...)) does with one chunk: it raises before anything is sent (Bot(token)
\* or the event loop), or it tries every user in turn and returns, a failed
\* send to a user being caught and printed (lines 472-479): `reached` are the
\* users the chunk got to.
Recipients == {"u1"}
Deliveries ==
    {[raised |-> TRUE, reached |-> {}]}
        \cup {[raised |-> FALSE, reached |-> u] : u \in SUBSET Recipients}

\* One pass of the loop over message_chunks (lines 711-723, 745-757) after
\* `at` chunks: the chunk is handed over and the loop goes on after a second,
\* or the exception leaves the loop for the except clause, which prints it.
send_chunk(kind, message_chunks, at, sent, delivery) ==
    IF delivery.raised
    THEN [at |-> at, sent |-> sent, failed |-> TRUE, over |-> TRUE]
    ELSE [at |-> at + 1,
          sent |-> Append(sent, [kind |-> kind,
                                 message |-> message_chunks[at + 1],
                                 reached |-> delivery.reached]),
          failed |-> FALSE,
          over |-> at + 1 = Len(message_chunks)]

MacdPositions == {"N/A", "x3650", "x3920"}
ScanLabels == {"HOLD", "BUY", "SELL", "STRONG_BUY", "STRONG_SELL"}
ScanResults ==
    {[symbol |-> s, error |-> "No data found"] : s \in Symbols}
        \cup [symbol : Symbols, currentSignal : ScanLabels,
              currentRSI : {4530}, macdPosition : MacdPositions,
              calendarReasons : {<< >>, <<"Ex-Dividend">>}]
ScanResultLists == UNION {[1..n -> ScanResults] : n \in 0..MaxLen}
\* Results of a portfolio analysis, with summaries short enough to share a
\* line, long enough to fill one and long enough to fill a message.
PortfolioResults ==
    {[error |-> "No data available"]}
        \cup [symbol : Symbols, currentSignal : ScanLabels,
              currentRSI : {4530}, currentPrice : {15025},
              macdPosition : {"N/A", "x460", "x3920"},
              calendarReasons : {<< >>, <<"Ex-Dividend">>}]
PortfolioResultLists == UNION {[1..n -> PortfolioResults] : n \in 0..MaxLen}

LineLists == UNION {[1..n -> RawLines] : n \in 0..MaxLen}
Files ==
    {[exists |-> FALSE, readable |-> FALSE, lines |-> << >>],
     [exists |-> TRUE, readable |-> FALSE, lines |-> <<"AAPL">>]}
        \cup {[exists |-> TRUE, readable |-> TRUE, lines |-> l] : l \in LineLists}
ExcludeArgs == {Given(q) : q \in SymbolLists} \cup {NotGiven}

\* ------------------------------------------- app.py: single-symbol lookup
\* str.upper() on the symbols a URL path can carry: case is folded, a
\* trailing blank stays.
upper(raw) ==
    CASE raw = "aapl" -> "AAPL"
      [] raw = "aapl " -> "AAPL "
      [] OTHER -> raw

\* What the sources hold for a symbol: nothing for one they do not list.
FeedOf(feeds, symbol) ==
    IF symbol \in DOMAIN feeds THEN feeds[symbol] ELSE NoData

\* A lookup that takes nothing from the store.
get_stock_signal_cached_never(cached_signal) == FALSE

\* get_stock_signal, `if cached_signal:` (line 64) on what db.get_signal
\* returned.
get_stock_signal_cached(cached_signal) == Truthy(cached_signal)

\* The responses of get_stock_signal (GET /api/stocks/<symbol>): the status
\* and the JSON body; invoked is not part of the response, it records whether
\* generate_signals was called.  Lines 65-66:
cached_response(cached_signal) ==
    [status |-> 200, invoked |-> FALSE,
     body |-> DictSet(cached_signal, "source", "database")]
\* and lines 71-77, on what generate_signals handed back.
generated_response(result) ==
    IF IsRaised(result)
    THEN [status |-> 500, invoked |-> TRUE, body |-> [error |-> "exception"]]
    ELSE IF HasError(result)
    THEN [status |-> 400, invoked |-> TRUE, body |-> [error |-> result.error]]
    ELSE [status |-> 200, invoked |-> TRUE,
          body |-> DictSet(result, "source", "generated")]
NoResponse == [status |-> 0, invoked |-> FALSE, body |-> EmptyDict]

NoOut == [op |-> "none"]
NoMarket == [s \in Symbols |-> NoData]

\* ---------------------------------------------------------------- actions
\* `out` holds the call in progress with its result until the caller has
\* taken it (Return); a call starts when no result is pending.
Idle == out.op = "none"

\* The calls that read the store or the sources more than once.  Such a call
\* runs read by read: between two of its reads other processes commit to the
\* store on connections of their own, the sources change what they report and
\* midnight passes.  done tells that the call has returned and quiet that none
\* of this has happened since the call began.
StepOps == {"get_portfolio_signals", "get_database_stats", "get_stock_signal",
            "analyze", "analyze_multiple_stocks", "main", "scan_notification"}
InCall == out.op \in StepOps /\ ~out.done
\* `out` after a step of another process that changed something.
Disturbed == IF InCall THEN [out EXCEPT !.quiet = FALSE] ELSE out

\* One pass of the loop of get_stock_data for `symbol` (lines 206-221), the
\* k-th: stock.history asks the source as it is at that moment.
FetchPass(symbol, k) ==
    fetch_attempt(FeedOf(market, symbol).attempts, FeedOf(market, symbol).bars, k)
\* What generate_signals(symbol) returns when that pass ends the fetch.
GenerateResult(symbol, k) ==
    signals_of_frame(symbol, FetchPass(symbol, k).data,
                     FeedOf(market, symbol).cal, TRUE)

\* save_signal, by the caller that takes its result or, while a call is in
\* progress, by another process.
SaveSignal(symbol, signal_data, signal_date, io) ==
    /\ Idle \/ InCall
    /\ nextId <= MaxId
    /\ LET r == save_signal(rows, nextId, symbol, signal_data, signal_date, io) IN
       /\ rows' = r.rows
       /\ nextId' = IF r.ok THEN nextId + 1 ELSE nextId
       /\ out' = IF Idle
                 THEN [op |-> "save_signal", symbol |-> symbol,
                       date |-> ResolveDate(signal_date), record |-> signal_data,
                       io |-> io, before |-> rows, result |-> r.ok]
                 ELSE IF r.ok THEN Disturbed ELSE out
    /\ UNCHANGED <<today, market>>

\* get_portfolio_signals(symbols, signal_date): the date is resolved and the
\* two lists are empty (lines 182-186); the call returns at once on an empty
\* list of symbols.
GetPortfolioSignals(symbols, signal_date) ==
    /\ Idle
    /\ out' = [op |-> "get_portfolio_signals", symbols |-> symbols,
               date |-> ResolveDate(signal_date), ios |-> << >>,
               result |-> [cached |-> << >>, missing |-> << >>,
                           date |-> ResolveDate(signal_date)],
               done |-> symbols = << >>, quiet |-> TRUE]
    /\ UNCHANGED <<rows, nextId, today, market>>

\* The next pass of its loop: one get_signal on the table as it is now.
PortfolioLookup(io) ==
    /\ out.op = "get_portfolio_signals"
    /\ ~out.done
    /\ LET i == Len(out.ios) + 1
           p == PartitionPass(rows, out.symbols[i], out.date, io,
                              out.result.cached, out.result.missing)
       IN
       /\ out' = [out EXCEPT !.ios = Append(@, io),
                             !.result = [cached |-> p.cached,
                                         missing |-> p.missing,
                                         date |-> out.date],
                             !.done = (i = Len(out.symbols))]
       /\ rows' = AssignReturned(rows,
                      IF Len(p.cached) > Len(out.result.cached)
                      THEN {out.symbols[i]} ELSE {},
                      out.date, "symbol")
    /\ UNCHANGED <<nextId, today, market>>

GetSignal(symbol, signal_date, io) ==
    /\ Idle
    /\ out' = [op |-> "get_signal", symbol |-> symbol,
               date |-> ResolveDate(signal_date), io |-> io,
               result |-> get_signal(rows, symbol, signal_date, io)]
    /\ UNCHANGED <<rows, nextId, today, market>>

GetSignalsByDate(signal_date, io) ==
    /\ Idle
    /\ out' = [op |-> "get_signals_by_date",
               date |-> ResolveDate(signal_date), io |-> io,
               result |-> get_signals_by_date(rows, signal_date, io)]
    /\ rows' = AssignReturned(rows, IF io THEN Symbols ELSE {},
                              ResolveDate(signal_date), "symbol")
    /\ UNCHANGED <<nextId, today, market>>

SignalExists(symbol, signal_date, io) ==
    /\ Idle
    /\ out' = [op |-> "signal_exists", symbol |-> symbol,
               date |-> ResolveDate(signal_date), io |-> io,
               result |-> signal_exists(rows, symbol, signal_date, io)]
    /\ UNCHANGED <<rows, nextId, today, market>>

\* get_database_stats(): the connection is made (line 235).
GetDatabaseStats ==
    /\ Idle
    /\ out' = [op |-> "get_database_stats", at |-> 0, io |-> TRUE,
               result |-> NoStats, done |-> FALSE, quiet |-> TRUE]
    /\ UNCHANGED <<rows, nextId, today, market>>

\* Its next SELECT, on the table as it is now; a statement that fails ends
\* the call in the except clause, which returns zeros.
StatsSelect(io) ==
    /\ out.op = "get_database_stats"
    /\ ~out.done
    /\ LET k == out.at + 1 IN
       out' = IF io
              THEN [out EXCEPT !.at = k,
                               !.result[StatsKeys[k]] = stats_select(k, rows),
                               !.done = (k = Len(StatsKeys))]
              ELSE [out EXCEPT !.at = k, !.io = FALSE, !.result = NoStats,
                               !.done = TRUE]
    /\ UNCHANGED <<rows, nextId, today, market>>

\* delete_old_signals, by the caller that takes its result or, while a call
\* is in progress, by another process.
DeleteOldSignals(days_to_keep, now, io) ==
    /\ Idle \/ InCall
    /\ LET r == delete_old_signals(rows, days_to_keep, now, io) IN
       /\ rows' = r.rows
       /\ out' = IF Idle
                 THEN [op |-> "delete_old_signals", days |-> days_to_keep,
                       now |-> now, io |-> io,
                       before |-> rows, result |-> r.deleted]
                 ELSE IF r.deleted > 0 THEN Disturbed ELSE out
    /\ UNCHANGED <<nextId, today, market>>

\* What a call that is repeated keeps of the call before it.
NoFirst == [given |-> FALSE]

\* POST /api/analyze: a request arrives when no result is pending, or it
\* repeats the request that has just been answered.  Lines 154-168 and the
\* start of db.get_portfolio_signals (182-186): 400 on an empty list; the
\* symbols are cleaned and the date is resolved.
AnalyzeCustomStocks(symbols) ==
    /\ Idle \/ (out.op = "analyze" /\ out.done /\ out.request = symbols)
    /\ LET clean == clean_symbols(symbols) IN
       out' = [op |-> "analyze", request |-> symbols, symbols |-> clean,
               date |-> today,
               first |-> IF Idle THEN NoFirst
                         ELSE [given |-> TRUE, date |-> out.date,
                               response |-> out.response, quiet |-> out.quiet],
               ios |-> << >>, results |-> << >>, missing |-> << >>,
               hits |-> 0, at |-> 0, calls |-> 0,
               pc |-> IF clean = << >> THEN "done" ELSE "lookup",
               response |-> IF symbols = << >> THEN error_response(400)
                            ELSE batch_response(<< >>, 0, << >>),
               done |-> clean = << >>, quiet |-> TRUE]
    /\ UNCHANGED <<rows, nextId, today, market>>

\* The next pass of the loop of db.get_portfolio_signals (line 171); after
\* the last one the response is built when no symbol is missing.
AnalyzeLookup(io) ==
    /\ out.op = "analyze"
    /\ ~out.done
    /\ out.pc = "lookup"
    /\ LET i == Len(out.ios) + 1
           p == PartitionPass(rows, out.symbols[i], out.date, io,
                              out.results, out.missing)
           last == i = Len(out.symbols)
           answered == last /\ p.missing = << >>
       IN
       /\ out' = [out EXCEPT !.ios = Append(@, io),
                             !.results = p.cached,
                             !.missing = p.missing,
                             !.hits = Len(p.cached),
                             !.pc = IF answered THEN "done"
                                    ELSE IF last THEN "generate" ELSE "lookup",
                             !.response = IF answered
                                          THEN batch_response(p.cached,
                                                   Len(p.cached), << >>)
                                          ELSE @,
                             !.done = answered]
       /\ rows' = AssignReturned(rows,
                      IF Len(p.cached) > Len(out.results)
                      THEN {out.symbols[i]} ELSE {},
                      out.date, "symbol")
    /\ UNCHANGED <<nextId, today, market>>

\* The next call of stock.history inside generate_signals for the missing
\* symbol in turn (line 177).  When it ends the fetch, generate_signals ends
\* and the pass of the loop over missing_symbols with it: an exception goes
\* to the except clause (500), and after the last missing symbol the response
\* is built.
AnalyzeGenerates ==
    /\ out.op = "analyze"
    /\ ~out.done
    /\ out.pc = "generate"
    /\ LET symbol == out.missing[out.at + 1]
           k == out.calls + 1
           loop == generate_missing_pass(GenerateResult(symbol, k), out.results)
           last == out.at + 1 = Len(out.missing)
       IN
       out' = IF ~FetchPass(symbol, k).done THEN [out EXCEPT !.calls = k]
              ELSE IF loop.raised
              THEN [out EXCEPT !.calls = k, !.pc = "done",
                               !.response = error_response(500),
                               !.done = TRUE]
              ELSE [out EXCEPT !.calls = 0, !.at = @ + 1,
                               !.results = loop.results,
                               !.pc = IF last THEN "done" ELSE "generate",
                               !.response = IF last
                                            THEN batch_response(loop.results,
                                                     out.hits, out.missing)
                                            ELSE @,
                               !.done = last]
    /\ UNCHANGED <<rows, nextId, today, market>>

\* RSISignalGenerator().analyze_multiple_stocks(symbols): results is empty
\* (line 356).
AnalyzeMultipleStocks(symbols) ==
    /\ Idle
    /\ out' = [op |-> "analyze_multiple_stocks", symbols |-> symbols,
               calls |-> 0,
               result |-> [raised |-> FALSE, results |-> << >>],
               done |-> symbols = << >>, quiet |-> TRUE]
    /\ UNCHANGED <<rows, nextId, today, market>>

\* The next call of stock.history inside generate_signals for the symbol in
\* turn (line 360); when it ends the fetch the result is appended, or the
\* exception ends the call.
MultipleGenerates ==
    /\ out.op = "analyze_multiple_stocks"
    /\ ~out.done
    /\ LET i == Len(out.result.results) + 1
           symbol == out.symbols[i]
           k == out.calls + 1
           loop == analyze_pass(GenerateResult(symbol, k), out.result.results)
       IN
       out' = IF ~FetchPass(symbol, k).done THEN [out EXCEPT !.calls = k]
              ELSE [out EXCEPT !.calls = 0, !.result = loop,
                               !.done = loop.raised \/ i = Len(out.symbols)]
    /\ UNCHANGED <<rows, nextId, today, market>>

\* GET /api/stocks/<symbol>: the symbol is upper-cased (line 59).
GetStockSignal(raw) ==
    /\ Idle
    /\ out' = [op |-> "get_stock_signal", raw |-> raw, symbol |-> upper(raw),
               pc |-> "lookup", io |-> TRUE, cached_signal |-> None,
               calls |-> 0, response |-> NoResponse,
               done |-> FALSE, quiet |-> TRUE]
    /\ UNCHANGED <<rows, nextId, today, market>>

\* db.get_signal(symbol) for today's date (line 63) on the table as it is
\* now, and the answer from the store when it gave a record (64-66).
StockLookup(io) ==
    /\ out.op = "get_stock_signal"
    /\ ~out.done
    /\ out.pc = "lookup"
    /\ LET cached_signal == get_signal(rows, out.symbol, NoDate, io)
           hit == get_stock_signal_cached(cached_signal)
       IN
       /\ out' = [out EXCEPT !.io = io, !.cached_signal = cached_signal,
                             !.pc = IF hit THEN "done" ELSE "generate",
                             !.response = IF hit
                                          THEN cached_response(cached_signal)
                                          ELSE @,
                             !.done = hit]
       /\ rows' = AssignReturned(rows, IF hit THEN {out.symbol} ELSE {},
                                 today, "source")
    /\ UNCHANGED <<nextId, today, market>>

\* The next call of stock.history inside generate_signals (line 69); when it
\* ends the fetch the request is answered (71-77).
StockGenerates ==
    /\ out.op = "get_stock_signal"
    /\ ~out.done
    /\ out.pc = "generate"
    /\ LET k == out.calls + 1 IN
       out' = IF ~FetchPass(out.symbol, k).done THEN [out EXCEPT !.calls = k]
              ELSE [out EXCEPT !.calls = k, !.pc = "done",
                               !.response =
                                   generated_response(GenerateResult(out.symbol, k)),
                               !.done = TRUE]
    /\ UNCHANGED <<rows, nextId, today, market>>

\* RSISignalGenerator(rsi_period).calculate_rsi(prices).
CalculateRsi(prices, rsi_period) ==
    /\ Idle
    /\ out' = [op |-> "calculate_rsi", prices |-> prices,
               period |-> rsi_period,
               result |-> calculate_rsi(prices, rsi_period)]
    /\ UNCHANGED <<rows, nextId, today, market>>

\* load_scan_list(exclude_stocks) over a scan_list.txt.
LoadScanList(file, exclude_stocks) ==
    /\ Idle
    /\ out' = [op |-> "load_scan_list", file |-> file,
               exclude |-> exclude_stocks,
               result |-> load_scan_list(file, exclude_stocks)]
    /\ UNCHANGED <<rows, nextId, today, market>>

\* A list file that has not been read.
NoFile == [exists |-> FALSE, readable |-> FALSE, lines |-> << >>]

\* main(): the portfolio is loaded (line 808).  chunks are the message chunks
\* of the notification in progress, at the number of them handed over, sent
\* the chunks handed over since main began and failed tells that an exception
\* ended a notification.
Main(portfolio_file) ==
    /\ Idle
    /\ LET stocks_to_analyze == load_portfolio_stocks(portfolio_file) IN
       out' = [op |-> "main", stocks_to_analyze |-> stocks_to_analyze,
               pc |-> IF stocks_to_analyze = << >> THEN "notify" ELSE "analyze",
               calls |-> 0, results |-> << >>, raised |-> FALSE,
               loaded |-> FALSE, file |-> NoFile, scan_stocks |-> << >>,
               scan_results |-> << >>,
               chunks |-> << >>, at |-> 0, sent |-> << >>, failed |-> FALSE,
               done |-> FALSE, quiet |-> TRUE]
    /\ UNCHANGED <<rows, nextId, today, market>>

\* analyze_multiple_stocks(stocks_to_analyze) (line 810), call by call of
\* stock.history; main has no except clause, an exception ends it.  The
\* results are printed (817-826) and handed to send_telegram_notifications.
MainAnalyzes ==
    /\ out.op = "main"
    /\ ~out.done
    /\ out.pc = "analyze"
    /\ LET i == Len(out.results) + 1
           symbol == out.stocks_to_analyze[i]
           k == out.calls + 1
           loop == analyze_pass(GenerateResult(symbol, k), out.results)
       IN
       out' = IF ~FetchPass(symbol, k).done THEN [out EXCEPT !.calls = k]
              ELSE IF loop.raised
              THEN [out EXCEPT !.calls = k, !.raised = TRUE, !.pc = "done",
                               !.done = TRUE]
              ELSE [out EXCEPT !.calls = 0, !.results = loop.results,
                               !.pc = IF i = Len(out.stocks_to_analyze)
                                      THEN "notify" ELSE "analyze"]
    /\ UNCHANGED <<rows, nextId, today, market>>

\* A notification of main begins with message_chunks: with nothing to send
\* main goes on, to the scan list after the portfolio alert and to its end
\* after the scan alert.
Notifying(call, message_chunks) ==
    [call EXCEPT !.chunks = message_chunks, !.at = 0,
                 !.pc = IF message_chunks # << >>
                        THEN (IF call.pc = "notify" THEN "send" ELSE "scan_send")
                        ELSE (IF call.pc = "notify" THEN "load" ELSE "done"),
                 !.done = (message_chunks = << >> /\ call.pc = "scan_notify")]

\* send_telegram_notifications(results) (line 830) and, after a scan that
\* found a BUY or a SELL, send_scan_telegram_notifications(scan_results)
\* (line 847): the configuration is loaded and the chunks are formatted.
MainNotifies(configured) ==
    /\ out.op = "main"
    /\ ~out.done
    /\ out.pc \in {"notify", "scan_notify"}
    /\ out' = Notifying(out,
                  IF out.pc = "notify"
                  THEN send_telegram_notifications(out.results, configured)
                  ELSE send_scan_telegram_notifications(out.scan_results,
                                                        configured))
    /\ UNCHANGED <<rows, nextId, today, market>>

\* The next chunk of the notification in progress goes to
\* send_telegram_message, in main or in the scan notification started by
\* MainScanNotifies.  After the last chunk, or after an exception, the
\* notification is over: main goes on to the scan list after the portfolio
\* alert and ends after the scan alert.
SendsChunk(delivery) ==
    /\ out.op \in {"main", "scan_notification"}
    /\ ~out.done
    /\ out.pc \in {"send", "scan_send"}
    /\ LET pass == send_chunk(IF out.pc = "send" THEN "portfolio" ELSE "scan",
                              out.chunks, out.at, out.sent, delivery)
           after == IF out.pc = "send" THEN "load" ELSE "done"
       IN
       out' = [out EXCEPT !.at = pass.at, !.sent = pass.sent,
                          !.failed = @ \/ pass.failed,
                          !.pc = IF pass.over THEN after ELSE @,
                          !.done = (pass.over /\ after = "done")]
    /\ UNCHANGED <<rows, nextId, today, market>>

\* The scan list is loaded with the portfolio excluded (line 833);
\* scan_stocks is what the market scan analyses, and an empty list ends main.
MainLoadsLists(scan_file) ==
    /\ out.op = "main"
    /\ ~out.done
    /\ out.pc = "load"
    /\ LET scan_stocks == load_scan_list(scan_file, Given(out.stocks_to_analyze)) IN
       out' = [out EXCEPT !.loaded = TRUE, !.file = scan_file,
                          !.scan_stocks = scan_stocks,
                          !.pc = IF scan_stocks = << >> THEN "done" ELSE "scan",
                          !.done = scan_stocks = << >>]
    /\ UNCHANGED <<rows, nextId, today, market>>

\* analyze_multiple_stocks(scan_stocks) (line 836), call by call of
\* stock.history, and after the last symbol the counts (839-840): the scan
\* notification is asked for when a BUY or a SELL was found.
MainScans ==
    /\ out.op = "main"
    /\ ~out.done
    /\ out.pc = "scan"
    /\ LET i == Len(out.scan_results) + 1
           symbol == out.scan_stocks[i]
           k == out.calls + 1
           loop == analyze_pass(GenerateResult(symbol, k), out.scan_results)
           last == i = Len(out.scan_stocks)
           found == scan_found(loop.results)
       IN
       out' = IF ~FetchPass(symbol, k).done THEN [out EXCEPT !.calls = k]
              ELSE IF loop.raised
              THEN [out EXCEPT !.calls = k, !.raised = TRUE, !.pc = "done",
                               !.done = TRUE]
              ELSE [out EXCEPT !.calls = 0, !.scan_results = loop.results,
                               !.pc = IF ~last THEN "scan"
                                      ELSE IF found THEN "scan_notify"
                                      ELSE "done",
                               !.done = (last /\ ~found)]
    /\ UNCHANGED <<rows, nextId, today, market>>

\* format_scan_telegram_message(results) over the results of a scan.
FormatScan(results) ==
    /\ Idle
    /\ out' = [op |-> "format_scan", results |-> results,
               messages |-> format_scan_telegram_message(results)]
    /\ UNCHANGED <<rows, nextId, today, market>>

\* format_telegram_message(results) over the results of a portfolio analysis.
FormatPortfolio(results) ==
    /\ Idle
    /\ out' = [op |-> "format_portfolio", results |-> results,
               messages |-> format_telegram_message(results)]
    /\ UNCHANGED <<rows, nextId, today, market>>

\* Lines 838-847 of main() over the results of a market scan: the counts,
\* and when a BUY or a SELL was found the configuration is loaded and the
\* chunks are formatted; SendsChunk hands them over one by one.
MainScanNotifies(scan_results, configured) ==
    /\ Idle
    /\ LET message_chunks == main_scan_notification(scan_results, configured) IN
       out' = [op |-> "scan_notification", results |-> scan_results,
               configured |-> configured,
               found |-> scan_found(scan_results),
               chunks |-> message_chunks, at |-> 0, sent |-> << >>,
               failed |-> FALSE, pc |-> "scan_send",
               done |-> message_chunks = << >>, quiet |-> TRUE]
    /\ UNCHANGED <<rows, nextId, today, market>>

\* The price or calendar source changes what it reports for a symbol.
MarketMoves(symbol, feed) ==
    /\ Idle \/ InCall
    /\ market[symbol] # feed
    /\ market' = [market EXCEPT ![symbol] = feed]
    /\ out' = Disturbed
    /\ UNCHANGED <<rows, nextId, today>>

\* RSISignalGenerator(check_calendar_events).generate_signals(symbol) with
\* the sources behaving as feed tells; labels is the Signal column of the
\* frame when the call ends, empty when the call ends before line 250 has
\* made the column.
GenerateSignals(symbol, feed, check_calendar_events) ==
    /\ Idle
    /\ out' = [op |-> "generate_signals", symbol |-> symbol, feed |-> feed,
               check |-> check_calendar_events,
               labels |-> IF calculate_macd_delivers
                          THEN SignalColumn(get_stock_data(feed.attempts, feed.bars),
                                            check_calendar_events, feed.cal)
                          ELSE << >>,
               result |-> generate_signals(symbol, feed, check_calendar_events)]
    /\ UNCHANGED <<rows, nextId, today, market>>

DetermineMacdPosition(macd, signal) ==
    /\ Idle
    /\ out' = [op |-> "determine_macd_position", macd |-> macd,
               signal |-> signal,
               result |-> determine_macd_position(macd, signal)]
    /\ UNCHANGED <<rows, nextId, today, market>>

\* get_stock_data pass by pass: the call starts, then every pass of the loop
\* calls stock.history once; calls counts the calls made.
StartFetch(attempts, bars) ==
    /\ Idle
    /\ out' = [op |-> "get_stock_data", attempts |-> attempts, bars |-> bars,
               calls |-> 0, done |-> FALSE, data |-> << >>]
    /\ UNCHANGED <<rows, nextId, today, market>>

Fetching == out.op = "get_stock_data" /\ ~out.done

HistoryCall ==
    /\ Fetching
    /\ LET pass == fetch_attempt(out.attempts, out.bars, out.calls + 1) IN
       out' = [out EXCEPT !.calls = out.calls + 1, !.done = pass.done,
                          !.data = pass.data]
    /\ UNCHANGED <<rows, nextId, today, market>>

\* Several callers inside save_signal for one (symbol, date) at the same time,
\* each on its own connection.  A caller is ready (connected, nothing
\* executed), locked (its INSERT OR REPLACE has run inside a transaction that
\* holds the database write lock), done (committed, True returned) or failed
\* (False returned).  last is the caller that committed most recently.
Writers == {"w1", "w2"}
NoWriter == "none"

StartWriters(symbol, signal_date, records) ==
    /\ Idle
    /\ nextId + Cardinality(Writers) - 1 <= MaxId
    /\ out' = [op |-> "writers", symbol |-> symbol,
               date |-> ResolveDate(signal_date), records |-> records,
               pc |-> [w \in Writers |-> "ready"], lock |-> NoWriter,
               last |-> NoWriter, before |-> rows]
    /\ UNCHANGED <<rows, nextId, today, market>>

Writing ==
    out.op = "writers" /\ \E w \in Writers : out.pc[w] \in {"ready", "locked"}

\* cursor.execute(..., json.dumps(signal_data)): json.dumps raises before the
\* statement runs, or the statement takes the write lock when it is free.
Execute(w) ==
    /\ out.op = "writers"
    /\ out.pc[w] = "ready"
    /\ JsonSerializable(out.records[w]) => out.lock = NoWriter
    /\ out' = IF JsonSerializable(out.records[w])
              THEN [out EXCEPT !.pc[w] = "locked", !.lock = w]
              ELSE [out EXCEPT !.pc[w] = "failed"]
    /\ UNCHANGED <<rows, nextId, today, market>>

\* The write lock stayed with another connection for the whole busy timeout:
\* sqlite3 raises "database is locked" and save_signal returns False.
LockTimeout(w) ==
    /\ out.op = "writers"
    /\ out.pc[w] = "ready"
    /\ JsonSerializable(out.records[w])
    /\ out.lock \notin {NoWriter, w}
    /\ out' = [out EXCEPT !.pc[w] = "failed"]
    /\ UNCHANGED <<rows, nextId, today, market>>

\* conn.commit(): the transaction's one statement becomes visible as a whole
\* and the lock is released.
Commit(w) ==
    /\ out.op = "writers"
    /\ out.pc[w] = "locked"
    /\ LET r == save_signal(rows, nextId, out.symbol, out.records[w],
                            out.date, TRUE) IN
       /\ rows' = r.rows
       /\ nextId' = nextId + 1
    /\ out' = [out EXCEPT !.pc[w] = "done", !.lock = NoWriter, !.last = w]
    /\ UNCHANGED <<today, market>>

\* start_scheduler: the initial health check, then the loop `while True:
\* schedule.run_pending(); time.sleep(60)` in one thread.  pc is where that
\* thread is: sleeping between two run_pending calls, inside run_signal_scan,
\* dead after an exception left the loop, or exited after sys.exit(1).
\* scan_due, cleanup_due and health_due tell that the job's next_run time has
\* passed; running counts the run_signal_scan calls in progress; last is the
\* job that ended most recently and cleanup_failed tells that a cleanup job
\* has failed since the start.
\* A start that enters the loop whatever the health check returned.
AfterHealthCheckIgnored(healthy) == "sleeping"

\* `if not self.health_check(): ... sys.exit(1)`.
AfterHealthCheck(healthy) == IF healthy THEN "sleeping" ELSE "exited"

StartScheduler(ok) ==
    /\ Idle
    /\ out' = [op |-> "scheduler", healthy |-> health_check(ok),
               pc |-> AfterHealthCheck(health_check(ok)),
               scan_due |-> FALSE, cleanup_due |-> FALSE,
               health_due |-> FALSE, running |-> 0, scan |-> << >>,
               last |-> [job |-> "none", failed |-> FALSE],
               cleanup_failed |-> FALSE]
    /\ UNCHANGED <<rows, nextId, today, market>>

Scheduling == out.op = "scheduler" /\ out.pc \notin {"dead", "exited"}

\* The clock reaches :00, at any point of the loop, also during a scan.
HourStrikes ==
    /\ Scheduling
    /\ ~out.scan_due
    /\ out' = [out EXCEPT !.scan_due = TRUE]
    /\ UNCHANGED <<rows, nextId, today, market>>

\* The clock reaches 02:00.
CleanupHourStrikes ==
    /\ Scheduling
    /\ ~out.cleanup_due
    /\ out' = [out EXCEPT !.cleanup_due = TRUE]
    /\ UNCHANGED <<rows, nextId, today, market>>

\* Six hours have passed since the health-check job last ran.
HealthHourStrikes ==
    /\ Scheduling
    /\ ~out.health_due
    /\ out' = [out EXCEPT !.health_due = TRUE]
    /\ UNCHANGED <<rows, nextId, today, market>>

\* A job starts as if run_pending handed it to a thread of its own.
CanRunJobThreaded == Scheduling

\* schedule.run_pending() calls each due job in the loop's own thread and
\* returns when the job has returned: a job starts only from the loop.
CanRunJob == Scheduling /\ out.pc = "sleeping"

\* run_pending calls run_signal_scan, and load_scan_list returns scan_symbols.
ScanBegins(scan_symbols) ==
    /\ CanRunJob
    /\ out.scan_due
    /\ out' = [out EXCEPT !.pc = "scan", !.scan_due = FALSE,
                          !.running = out.running + 1, !.scan = scan_symbols]
    /\ UNCHANGED <<rows, nextId, today, market>>

\* run_signal_scan ends: by return, back in the loop; by its `raise`, through
\* run_pending and the loop to the `raise` of start_scheduler.
ScanEnds ==
    /\ out.op = "scheduler"
    /\ out.pc = "scan"
    /\ LET r == run_signal_scan(rows, out.scan) IN
       /\ rows' = r.rows
       /\ out' = [out EXCEPT !.pc = IF r.escaped THEN "dead" ELSE "sleeping",
                             !.running = out.running - 1,
                             !.last = [job |-> "scan", failed |-> r.failed]]
    /\ UNCHANGED <<nextId, today, market>>

\* run_pending calls cleanup_old_signals.
CleanupRuns(now, io) ==
    /\ CanRunJob
    /\ out.cleanup_due
    /\ LET r == cleanup_old_signals(rows, now, io) IN
       /\ rows' = r.rows
       /\ out' = [out EXCEPT !.pc = IF r.escaped THEN "dead" ELSE out.pc,
                             !.cleanup_due = FALSE,
                             !.last = [job |-> "cleanup", failed |-> r.failed],
                             !.cleanup_failed = out.cleanup_failed \/ r.failed]
    /\ UNCHANGED <<nextId, today, market>>

\* run_pending calls health_check, whose result the loop does not read.
HealthCheckRuns(ok) ==
    /\ CanRunJob
    /\ out.health_due
    /\ out' = [out EXCEPT !.health_due = FALSE,
                          !.last = [job |-> "health",
                                    failed |-> ~health_check(ok)]]
    /\ UNCHANGED <<rows, nextId, today, market>>

\* The caller takes the result of a call that has returned.
Return ==
    /\ ~Idle
    /\ ~Fetching
    /\ ~Writing
    /\ ~InCall
    /\ out' = NoOut
    /\ UNCHANGED <<rows, nextId, today, market>>

\* Midnight: date.today() moves on.
Tick ==
    /\ Idle \/ InCall
    /\ today < MaxDay
    /\ today' = today + 1
    /\ out' = Disturbed
    /\ UNCHANGED <<rows, nextId, market>>

Init ==
    /\ rows = {}
    /\ nextId = 1
    /\ today = 0
    /\ market = NoMarket
    /\ out = NoOut

Next ==
    \/ \E s \in Symbols, d \in SignalRecords, a \in DateArgs, io \in BOOLEAN :
          SaveSignal(s, d, a, io)
    \/ Idle /\ \E l \in SymbolLists, a \in DateArgs : GetPortfolioSignals(l, a)
    \/ \E io \in BOOLEAN : PortfolioLookup(io)
    \/ \E n \in DaysToKeep, now \in UtcDates, io \in BOOLEAN :
          DeleteOldSignals(n, now, io)
    \/ \E s \in Symbols, a \in DateArgs, io \in BOOLEAN : GetSignal(s, a, io)
    \/ \E a \in DateArgs, io \in BOOLEAN : GetSignalsByDate(a, io)
    \/ \E s \in Symbols, a \in DateArgs, io \in BOOLEAN : SignalExists(s, a, io)
    \/ GetDatabaseStats
    \/ \E io \in BOOLEAN : StatsSelect(io)
    \/ \E raw \in RawPaths : GetStockSignal(raw)
    \/ \E io \in BOOLEAN : StockLookup(io)
    \/ StockGenerates
    \/ Return
    \/ Tick

Spec == Init /\ [][Next]_vars

\* The batch endpoints over a store that a scan fills with today's records.
NextBatch ==
    \/ \E s \in Symbols : SaveSignal(s, StoredRecord(s), NoDate, TRUE)
    \/ \E s \in Symbols, f \in BatchFeeds : MarketMoves(s, f)
    \/ \E l \in RawLists : AnalyzeCustomStocks(l)
    \/ \E io \in BOOLEAN : AnalyzeLookup(io)
    \/ AnalyzeGenerates
    \/ \E l \in SymbolLists : AnalyzeMultipleStocks(l)
    \/ MultipleGenerates
    \/ Return
    \/ Tick

SpecBatch == Init /\ [][NextBatch]_vars

\* The price fetch, pass by pass and inside generate_signals.  A pass of the
\* loop that has started completes: stock.history is called with
\* timeout=config.REQUEST_TIMEOUT and the wait between passes is one second.
NextFetch ==
    \/ \E a \in AttemptPatterns, b \in {<< >>, <<Flat, Up>>} : StartFetch(a, b)
    \/ HistoryCall
    \/ \E s \in Symbols, f \in FetchFeeds : GenerateSignals(s, f, TRUE)
    \/ Return

SpecFetch == Init /\ [][NextFetch]_vars /\ WF_vars(HistoryCall)

\* The signal classification over the frames of a short history.
NextSignal ==
    \/ Idle /\ \E f \in SignalFeeds, c \in BOOLEAN :
                  GenerateSignals("AAPL", f, c)
    \/ Idle /\ \E m, g \in MacdLevels : DetermineMacdPosition(m, g)
    \/ Return

SpecSignal == Init /\ [][NextSignal]_vars

\* save_signal under concurrent callers.
NextWriters ==
    \/ \E s \in Symbols, a \in DateArgs : SaveSignal(s, StoredRecord(s), a, TRUE)
    \/ Idle /\ \E s \in Symbols, a \in DateArgs :
                  \E recs \in [Writers -> SignalRecords] : StartWriters(s, a, recs)
    \/ \E w \in Writers : Execute(w)
    \/ \E w \in Writers : LockTimeout(w)
    \/ \E w \in Writers : Commit(w)
    \/ Return
    \/ Tick

SpecWriters == Init /\ [][NextWriters]_vars

\* The scheduler over a store that holds today's and old records.
NextScheduler ==
    \/ \E s \in Symbols, a \in {NoDate, Stale} :
          SaveSignal(s, StoredRecord(s), a, TRUE)
    \/ \E s \in Symbols, f \in {NoData, Quoted} : MarketMoves(s, f)
    \/ \E ok \in BOOLEAN : StartScheduler(ok)
    \/ HourStrikes
    \/ CleanupHourStrikes
    \/ HealthHourStrikes
    \/ \E ok \in BOOLEAN : HealthCheckRuns(ok)
    \/ \E l \in SymbolLists : ScanBegins(l)
    \/ ScanEnds
    \/ \E now \in UtcDates, io \in BOOLEAN : CleanupRuns(now, io)
    \/ Return
    \/ Tick

SpecScheduler == Init /\ [][NextScheduler]_vars

\* The single-symbol endpoint over a store that holds records of today.
NextLookup ==
    \/ \E s \in Symbols : \E d \in {StoredRecord(s), EmptyDict} :
          SaveSignal(s, d, NoDate, TRUE)
    \/ \E s \in Symbols, f \in Feeds : MarketMoves(s, f)
    \/ \E raw \in RawPaths : GetStockSignal(raw)
    \/ \E io \in BOOLEAN : StockLookup(io)
    \/ StockGenerates
    \/ Return
    \/ Tick

SpecLookup == Init /\ [][NextLookup]_vars

\* The RSI of short and of configured-window close series.
NextRsi ==
    \/ Idle /\ \E p \in ShortSeries, n \in ShortPeriods : CalculateRsi(p, n)
    \/ Idle /\ \E p \in LongSeries : CalculateRsi(p, RSI_PERIOD)
    \/ Return

SpecRsi == Init /\ [][NextRsi]_vars

\* The command-line program: its stock lists and its scan notification.
NextMain ==
    \/ Idle /\ \E f \in Files, x \in ExcludeArgs : LoadScanList(f, x)
    \/ \E s \in Symbols, f \in {NoData, Quoted} : MarketMoves(s, f)
    \/ Idle /\ \E p \in Files : Main(p)
    \/ MainAnalyzes
    \/ \E configured \in BOOLEAN : MainNotifies(configured)
    \/ \E delivery \in Deliveries : SendsChunk(delivery)
    \/ Idle /\ \E results \in PortfolioResultLists : FormatPortfolio(results)
    \/ \E f \in Files : MainLoadsLists(f)
    \/ MainScans
    \/ Idle /\ \E results \in ScanResultLists : FormatScan(results)
    \/ Idle /\ \E results \in ScanResultLists, configured \in BOOLEAN :
                   MainScanNotifies(results, configured)
    \/ Return

SpecMain == Init /\ [][NextMain]_vars

\* ================================================================= claims
Range(q) == {q[i] : i \in DOMAIN q}
Count(q, x) == Cardinality({i \in DOMAIN q : q[i] = x})
NoDuplicates(q) == \A i, j \in DOMAIN q : q[i] = q[j] => i = j
\* The symbols of a list of cached records.
SymbolsOf(cached) == [i \in DOMAIN cached |-> cached[i].symbol]
\* A get_portfolio_signals call that has returned.
GotPartition == out.op = "get_portfolio_signals" /\ out.done
\* The symbols get_portfolio_signals returned, cached first.
Returned == SymbolsOf(out.result.cached) \o out.result.missing

\* C1 (as stated): for every requested list, the symbols of 'cached' and
\* 'missing' together are exactly the requested symbols, none is in both
\* lists and none appears more than once.
C1_AsStated ==
    GotPartition =>
        /\ Range(Returned) = Range(out.symbols)
        /\ Range(SymbolsOf(out.result.cached)) \cap Range(out.result.missing) = {}
        /\ NoDuplicates(Returned)

\* C1 (amended): every symbol appears in 'cached' and 'missing' together
\* exactly as many times as the request lists it, so no requested symbol is
\* omitted and no other symbol is returned; when the request lists each
\* symbol once, no symbol is in both lists or appears more than once.
C1_PartitionCounts ==
    GotPartition =>
        /\ \A s \in Symbols : Count(Returned, s) = Count(out.symbols, s)
        /\ NoDuplicates(out.symbols) =>
              /\ NoDuplicates(Returned)
              /\ Range(SymbolsOf(out.result.cached))
                    \cap Range(out.result.missing) = {}

\* A request of two different symbols, one served from the store and one
\* reported missing, the table having changed between the two lookups.
C1_Witness ==
    /\ GotPartition
    /\ ~out.quiet
    /\ Len(out.symbols) = 2 /\ out.symbols[1] # out.symbols[2]
    /\ Len(out.result.cached) = 1
    /\ Len(out.result.missing) = 1

\* C2: the store holds at most one row for each (symbol, date) pair.
C2_Uniqueness ==
    \A r, q \in rows : (r.symbol = q.symbol /\ r.date = q.date) => r = q

\* A successful save onto a key that already held a row.
C2_Witness ==
    /\ out.op = "save_signal" /\ out.result
    /\ Matching(out.before, out.symbol, out.date) # {}
    /\ Cardinality(rows) = Cardinality(out.before)

\* C3: after a successful save_signal(symbol, record, date), get_signal of
\* the key returns exactly the saved record, whatever the key held before.
C3_SaveThenGet ==
    (out.op = "save_signal" /\ out.result) =>
        get_signal(rows, out.symbol, out.date, TRUE) = out.record

\* A one-key record saved over a record that had other keys as well.
C3_Witness ==
    /\ out.op = "save_signal" /\ out.result
    /\ out.record = [currentSignal |-> "BUY"]
    /\ Matching(out.before, out.symbol, out.date) # {}
    /\ "currentRSI" \in DOMAIN get_signal(out.before, out.symbol, out.date, TRUE)

\* ------------------------------------------------------- batch analysis
\* A request for a non-empty list has been answered, and neither the store
\* nor the sources nor the date changed while it was handled.
Analyzed == out.op = "analyze" /\ out.done /\ out.quiet /\ out.request # << >>
\* It repeats the request answered just before it, which was handled
\* undisturbed on the same date.
Repeated == Analyzed /\ out.first.given /\ out.first.quiet
                /\ out.first.date = out.date
Answered == Analyzed /\ out.response.status = 200
\* The returned records the store supplied, and those computed in the call.
FromCache(resp) == 1..resp.hits
Computed(resp) == (resp.hits + 1)..Len(resp.stocks)
\* What a response says of each symbol: its currentSignal and currentRSI.
Readings(resp) ==
    {<<resp.stocks[i].symbol, resp.stocks[i].currentSignal,
       resp.stocks[i].currentRSI>> : i \in DOMAIN resp.stocks}
\* The record without the source tag the endpoint adds.
Untagged(d) == [k \in (DOMAIN d) \ {"source"} |-> d[k]]
\* What the generator makes of a symbol in the current market.
Generated(s) == generate_signals(s, FeedOf(market, s), TRUE)
Succeeds(s) == ~IsRaised(Generated(s)) /\ ~HasError(Generated(s))
\* The price source delivers a history for s that the indicator rules can
\* classify: at least two bars.
Analysable(s) ==
    Len(get_stock_data(FeedOf(market, s).attempts, FeedOf(market, s).bars)) >= 2

\* C4: a second batch analysis of the same symbols on the same date, with no
\* store mutation in between, gives every symbol the same currentSignal and
\* currentRSI and takes every returned record from the cache: nothing is
\* generated again, and every requested symbol that has a price history is
\* among the records taken from the cache.
C4_SecondCallCached ==
    Repeated =>
        /\ (out.first.response.status = 200 /\ out.response.status = 200) =>
               /\ Readings(out.response) = Readings(out.first.response)
               /\ Computed(out.response) = {}
        /\ \A s \in Range(out.symbols) :
               Analysable(s) =>
                   /\ out.response.status = 200
                   /\ \E i \in FromCache(out.response) :
                          out.response.stocks[i].symbol = s

\* C5: when a batch analysis returns, the store holds, for every record
\* computed in the call, a record for (symbol, date) equal to it; so it holds
\* a record for every requested symbol that has a price history.
C5_ComputedArePersisted ==
    Analyzed =>
        /\ out.response.status = 200 =>
               \A i \in Computed(out.response) :
                   LET r == out.response.stocks[i] IN
                   /\ Matching(rows, r.symbol, out.date) # {}
                   /\ Untagged(get_signal(rows, r.symbol, out.date, TRUE))
                          = Untagged(r)
        /\ \A s \in Range(out.symbols) :
               Analysable(s) => Matching(rows, s, out.date) # {}

\* C6: every returned record read from the cache carries source "database"
\* and every record computed in the call carries source "generated": a
\* requested symbol that has a price history and no record in the store is
\* returned tagged "generated".
C6_SourceTags ==
    Analyzed =>
        /\ out.response.status = 200 =>
               /\ \A i \in FromCache(out.response) :
                      out.response.stocks[i].source = "database"
               /\ \A i \in Computed(out.response) :
                      out.response.stocks[i].source = "generated"
        /\ \A s \in Range(out.symbols) :
               (Analysable(s) /\ Matching(rows, s, out.date) = {}) =>
                   /\ out.response.status = 200
                   /\ \E i \in DOMAIN out.response.stocks :
                          /\ out.response.stocks[i].symbol = s
                          /\ out.response.stocks[i].source = "generated"

\* C7: cached_count is the number of returned records that came from the
\* cache, generated_count the number computed in the call, and their sum is
\* the number of records returned.
C7_Counts ==
    Answered =>
        /\ out.response.cached_count = Cardinality(FromCache(out.response))
        /\ out.response.generated_count = Cardinality(Computed(out.response))
        /\ out.response.cached_count + out.response.generated_count
              = Len(out.response.stocks)

\* C8: a fetch or computation failure of one symbol never makes the batch
\* response fail and never keeps another symbol of the batch from being
\* processed: every requested symbol that has a price history is returned.
C8_FailureIsPerSymbol ==
    Analyzed =>
        /\ out.response.status = 200
        /\ \A s \in Range(out.symbols) :
              Analysable(s) =>
                  \E i \in DOMAIN out.response.stocks :
                      out.response.stocks[i].symbol = s

\* C9: the response of a batch analysis holds one entry per requested
\* symbol, an explicit error entry for each symbol whose analysis failed.
C9_ErrorEntries ==
    Answered =>
        /\ Len(out.response.stocks) = Len(out.symbols)
        /\ \A j \in DOMAIN out.symbols :
              (~Succeeds(out.symbols[j])
                  /\ Matching(rows, out.symbols[j], out.date) = {}) =>
                  \E i \in DOMAIN out.response.stocks :
                      HasError(out.response.stocks[i])

\* C10: analyze_multiple_stocks returns one entry per input symbol, in input
\* order, each the signal record of its symbol or an error entry.
C10_OneEntryPerSymbol ==
    (out.op = "analyze_multiple_stocks" /\ out.done /\ out.quiet) =>
        /\ ~out.result.raised
        /\ Len(out.result.results) = Len(out.symbols)
        /\ \A i \in DOMAIN out.result.results :
              \/ HasError(out.result.results[i])
              \/ out.result.results[i].symbol = out.symbols[i]

\* ------------------------------------------------------------------ purge
Purged == out.op = "delete_old_signals" /\ out.io

\* C20: delete_old_signals(days) deletes exactly the records dated strictly
\* earlier than the current date minus `days` days, keeps every other record
\* unchanged (one dated exactly `days` days ago is kept) and returns the
\* number of records it deleted.
C20_PurgeByAge ==
    Purged =>
        /\ rows = {r \in out.before : ~(r.date < today - out.days)}
        /\ out.result = Cardinality(out.before \ rows)

\* ------------------------------------------------------------ price fetch
FetchReturned == out.op = "get_stock_data" /\ out.done
\* Every call the loop can make raises.
AllRaised(attempts) == \A k \in 1..RETRY_ATTEMPTS : attempts[k] = "raise"
\* The k-th call hands back an empty frame.
EmptyFrame(k) ==
    \/ out.attempts[k] = "empty"
    \/ out.attempts[k] = "data" /\ out.bars = << >>

\* C11: get_stock_data calls the price source at most RETRY_ATTEMPTS times
\* for one symbol and every call of it returns; when every attempt raises it
\* returns an empty frame, and generate_signals returns the error dict of the
\* symbol instead of raising.
C11_BoundedFetch ==
    /\ [](out.op = "get_stock_data" => out.calls <= RETRY_ATTEMPTS)
    /\ []((FetchReturned /\ AllRaised(out.attempts)) => out.data = << >>)
    /\ []((out.op = "generate_signals" /\ AllRaised(out.feed.attempts)) =>
              HasError(out.result))
    /\ (Fetching ~> FetchReturned)

\* A fetch that returned after RETRY_ATTEMPTS calls that all raised.
C11_Witness ==
    /\ FetchReturned
    /\ AllRaised(out.attempts)
    /\ out.calls = RETRY_ATTEMPTS

\* C12: an empty frame from the price source ends the fetch: every call
\* before the last one made raised, and after a call that handed back an
\* empty frame the fetch has returned, with an empty frame.
C12_EmptyNotRetried ==
    (out.op = "get_stock_data" /\ out.calls > 0) =>
        /\ \A k \in 1..(out.calls - 1) : out.attempts[k] = "raise"
        /\ EmptyFrame(out.calls) => (out.done /\ out.data = << >>)

\* The first call raised, the second gave an empty frame and the fetch
\* returned, although a third call would have brought data.
C12_Witness ==
    /\ FetchReturned
    /\ out.calls = 2
    /\ out.attempts[1] = "raise" /\ out.attempts[2] = "empty"
    /\ out.attempts[3] = "data" /\ out.bars # << >>

\* -------------------------------------------------- signal classification
SignalsGenerated == out.op = "generate_signals"
\* The call returned a signal record.
Classified == SignalsGenerated /\ ~IsRaised(out.result) /\ ~HasError(out.result)
\* The frame the call worked on and its last row.
Data == get_stock_data(out.feed.attempts, out.feed.bars)
Last == Len(Data)
Flags == get_calendar_events(out.feed.cal)
\* Calendar checking is enabled and a flag is set.
Flagged == out.check /\ (Flags.ex_date_tomorrow \/ Flags.earnings_tomorrow)
LookupFailed == out.feed.cal.ex = "fail" \/ out.feed.cal.earn = "fail"
\* The calendar with every failed lookup replaced by one that found no event
\* tomorrow.
Degraded(cal) ==
    [ex |-> IF cal.ex = "fail" THEN "other" ELSE cal.ex,
     earn |-> IF cal.earn = "fail" THEN "other" ELSE cal.earn]
IndicatorLabels == [i \in DOMAIN Data |-> IndicatorSignal(Data, i)]

\* The call was made for a symbol the price source has bars for.
OnData == SignalsGenerated /\ Data # << >>

\* C13: when a calendar lookup fails, the call does not raise, the flag of
\* each failed lookup is false, and generation goes on as if the failed
\* lookup had found no event: with no flag set, the record is returned and
\* the labels are those of the indicator rules.
C13_CalendarFailure ==
    (OnData /\ out.check /\ LookupFailed) =>
        /\ out.feed.cal.ex = "fail" => ~Flags.ex_date_tomorrow
        /\ out.feed.cal.earn = "fail" => ~Flags.earnings_tomorrow
        /\ ~Flagged =>
              /\ Classified
              /\ out.labels = IndicatorLabels
              /\ out.result.calendarEvents =
                    [ex_date_tomorrow |-> FALSE, earnings_tomorrow |-> FALSE]

\* C14: the calendar override changes the label of the most recent bar
\* only: every bar has a label, every earlier bar the one the indicator rules
\* gave it, and the last bar that label or SELL.
C14_OverrideLastBarOnly ==
    OnData =>
        /\ DOMAIN out.labels = DOMAIN Data
        /\ \A i \in 1..(Last - 1) : out.labels[i] = IndicatorLabels[i]
        /\ out.labels[Last] \in {"SELL", IndicatorLabels[Last]}

\* C15: with calendar checking enabled and the ex-dividend or the earnings
\* flag set, the call returns currentSignal SELL whatever the indicator rules
\* gave the last bar.
C15_CalendarForcesSell ==
    (OnData /\ Flagged) =>
        /\ Classified
        /\ out.result.currentSignal = "SELL"

\* config.py: the RSI thresholds, in points.
OVERSOLD_THRESHOLD == 30
OVERBOUGHT_THRESHOLD == 70
STRONG_BUY_THRESHOLD == 20
STRONG_SELL_THRESHOLD == 80
\* RSI points on the scale of the rsi column.
Points(x) == x * 100
\* The last bar has an RSI and no calendar flag bears on it.
Unflagged == OnData /\ ~Flagged /\ Data[Last].rsi # NaN
BullishCross == macd_bullish(Data, Last)
BearishCross == macd_bearish(Data, Last)
\* The label the RSI thresholds give.
BaseLabel(rsi) ==
    IF rsi >= Points(OVERBOUGHT_THRESHOLD) THEN "SELL"
    ELSE IF rsi <= Points(OVERSOLD_THRESHOLD) THEN "BUY"
    ELSE "HOLD"
\* The label after a crossover has acted on the base label.
CrossLabel(rsi, bullish, bearish) ==
    LET base == BaseLabel(rsi) IN
    IF bullish /\ base = "BUY" THEN "STRONG_BUY"
    ELSE IF bullish /\ base = "HOLD" /\ rsi < Points(50) THEN "BUY"
    ELSE IF bearish /\ base = "SELL" THEN "STRONG_SELL"
    ELSE IF bearish /\ base = "HOLD" /\ rsi > Points(50) THEN "SELL"
    ELSE base

\* C16: with no MACD crossover and no calendar flag, a bar whose RSI is at
\* or below the oversold threshold is labelled BUY, one whose RSI is at or
\* above the overbought threshold SELL, and one in between HOLD.
C16_RsiThresholds ==
    (Unflagged /\ ~BullishCross /\ ~BearishCross) =>
        /\ Classified
        /\ out.result.currentSignal = BaseLabel(Data[Last].rsi)

\* C17: a bullish crossover turns BUY into STRONG_BUY and HOLD into BUY only
\* when RSI < 50; a bearish crossover turns SELL into STRONG_SELL and HOLD
\* into SELL only when RSI > 50.
C17_CrossoverUpgrade ==
    (Unflagged /\ (BullishCross \/ BearishCross)) =>
        /\ Classified
        /\ out.result.currentSignal =
               CrossLabel(Data[Last].rsi, BullishCross, BearishCross)

\* C18: signalStrength is STRONG exactly when the current RSI is at or below
\* the strong-buy threshold or at or above the strong-sell threshold.
C18_StrengthFromRsi ==
    (OnData /\ Data[Last].rsi # NaN) =>
        /\ Classified
        /\ out.result.signalStrength = "STRONG" <=>
               \/ Data[Last].rsi <= Points(STRONG_BUY_THRESHOLD)
               \/ Data[Last].rsi >= Points(STRONG_SELL_THRESHOLD)

\* C19: determine_macd_position returns exactly one category for every pair
\* of values, each under its own condition and Mixed in every other case.
C19_MacdPosition ==
    out.op = "determine_macd_position" =>
        LET m == out.macd
            g == out.signal
            r == out.result
        IN
        /\ r \in {"Golden Cross", "Dead Cross", "Up Trend", "Down Trend",
                   "Mixed Signals"}
        /\ r = "Golden Cross" <=> (m > g /\ m > 0 /\ g > 0)
        /\ r = "Dead Cross" <=> (m < g /\ m < 0 /\ g < 0)
        /\ r = "Up Trend" <=> (m > 0 /\ g > 0 /\ m <= g)
        /\ r = "Down Trend" <=> (m < 0 /\ g < 0 /\ m >= g)
        /\ r = "Mixed Signals" <=> ~((m > 0 /\ g > 0) \/ (m < 0 /\ g < 0))

\* Equal values above zero are an Up Trend, and a value on the zero line
\* gives Mixed.
C19_Witness ==
    /\ out.op = "determine_macd_position"
    /\ out.macd = out.signal /\ out.macd > 0
    /\ out.result = "Up Trend"

\* ------------------------------------------------- store: order and failure
\* a is b with some elements left out, the rest in b's order.
RECURSIVE SubseqFrom(_, _, _, _)
SubseqFrom(a, b, i, j) ==
    IF i > Len(a) THEN TRUE
    ELSE IF j > Len(b) THEN FALSE
    ELSE IF a[i] = b[j] THEN SubseqFrom(a, b, i + 1, j + 1)
    ELSE SubseqFrom(a, b, i, j + 1)
IsSubseq(a, b) == SubseqFrom(a, b, 1, 1)

\* C27: get_portfolio_signals keeps the input order inside each partition: the
\* symbols of 'cached', read front to back, are the cached symbols in the
\* order the request lists them, and 'missing' likewise.
C27_OrderKept ==
    GotPartition =>
        /\ IsSubseq(SymbolsOf(out.result.cached), out.symbols)
        /\ IsSubseq(out.result.missing, out.symbols)

C27_Witness ==
    /\ GotPartition
    /\ Len(out.result.cached) = 2
    /\ out.result.cached[1].symbol # out.result.cached[2].symbol

\* The lookups of a get_portfolio_signals call that did not reach the database.
FailedLookups == {i \in DOMAIN out.symbols : ~out.ios[i]}

\* C22: a storage failure inside a store operation comes back as a value, not
\* as an exception: None from get_signal, the empty list from
\* get_signals_by_date, False from signal_exists, False from save_signal with
\* the table untouched, and from get_portfolio_signals the symbol whose lookup
\* failed listed under 'missing'.
C22_FailureStaysInside ==
    /\ out.op = "get_signal" /\ ~out.io => out.result = None
    /\ out.op = "get_signals_by_date" /\ ~out.io => out.result = << >>
    /\ out.op = "signal_exists" /\ ~out.io => out.result = FALSE
    /\ out.op = "save_signal" /\ ~out.io =>
           out.result = FALSE /\ rows = out.before
    /\ GotPartition =>
           /\ \A i \in FailedLookups : out.symbols[i] \in Range(out.result.missing)
           /\ Len(out.result.cached) + Len(out.result.missing) = Len(out.symbols)
           /\ Len(out.result.missing) >= Cardinality(FailedLookups)

\* A symbol requested twice and stored all along: found by the lookup that
\* reached the database and reported missing by the one that failed.
C22_Witness ==
    /\ GotPartition
    /\ out.quiet
    /\ \E i \in FailedLookups :
           /\ Matching(rows, out.symbols[i], out.date) # {}
           /\ out.symbols[i] \in Range(out.result.missing)
           /\ \E j \in DOMAIN out.symbols : out.ios[j] /\ out.symbols[j] = out.symbols[i]

\* ------------------------------------------------------ concurrent writers
WritersFinished ==
    out.op = "writers" /\ \A w \in Writers : out.pc[w] \in {"done", "failed"}

\* C23: while several callers write the same (symbol, date) the key never has
\* more than one row, and from the first commit on the key holds exactly one
\* record, the whole record of the caller that committed last, in particular
\* once all callers have finished; with no commit the table is as it was.
C23_LastWriteWins ==
    out.op = "writers" =>
        /\ Cardinality(Matching(rows, out.symbol, out.date)) <= 1
        /\ out.last # NoWriter =>
               /\ Cardinality(Matching(rows, out.symbol, out.date)) = 1
               /\ get_signal(rows, out.symbol, out.date, TRUE)
                      = out.records[out.last]
        /\ out.last = NoWriter => rows = out.before

C23_Witness ==
    /\ WritersFinished
    /\ \A w \in Writers : out.pc[w] = "done"
    /\ out.last = "w1"
    /\ DOMAIN out.records["w1"] # DOMAIN out.records["w2"]
    /\ DOMAIN out.records["w1"] # {}

\* ---------------------------------------------------------------- scheduler
JobEnded(job) == out.op = "scheduler" /\ out.last.job = job

\* C21: once the daily cleanup job has run, the store holds no record dated
\* more than CLEANUP_DAYS days before the current date.
C21_CleanupPurges ==
    JobEnded("cleanup") => \A r \in rows : r.date >= today - CLEANUP_DAYS

\* C24: at every moment at most one run_signal_scan is in progress, also when
\* the next scan time passes while a scan is still running.
C24_ScansNeverOverlap ==
    out.op = "scheduler" =>
        /\ out.running <= 1
        /\ out.running = 1 <=> out.pc = "scan"

\* A scan is running and the next one is already due.
C24_Witness ==
    /\ out.op = "scheduler"
    /\ out.pc = "scan"
    /\ out.running = 1
    /\ out.scan_due

\* C25: once run_signal_scan has run over a non-empty scan list, the store
\* holds a record dated today for every scanned symbol that has a price
\* history, which is what lets a second scan of the day read it from the
\* store.
C25_ScanPersists ==
    (JobEnded("scan") /\ out.scan # << >>) =>
        \A s \in Range(out.scan) :
            Analysable(s) => signal_exists(rows, s, NoDate, TRUE)

\* ------------------------------------------------------ single-symbol lookup
\* A single-symbol request that has been answered.
Looked == out.op = "get_stock_signal" /\ out.done
\* The rows the store holds for the looked-up symbol and today.
HeldToday == Matching(rows, out.symbol, today)
HeldRecord == json_loads((CHOOSE r \in HeldToday : TRUE).signal_data)
\* What the lookup at line 63 gave was a record that is not empty.
LookupHit == Truthy(out.cached_signal)

\* C26 (as stated): whenever the store holds a record for (symbol, today) that
\* record is returned tagged "database" and the generator is not invoked; the
\* generator is invoked only when the store has no record for the key.  Read
\* for requests during which neither the store nor the date changed.
C26_AsStated ==
    (Looked /\ out.quiet) =>
        /\ HeldToday # {} =>
               /\ ~out.response.invoked
               /\ out.response.status = 200
               /\ out.response.body = DictSet(HeldRecord, "source", "database")
        /\ out.response.invoked => HeldToday = {}

\* C26: the symbol is upper-cased; when the lookup of (symbol, today) yields a
\* non-empty record, that record is returned tagged "database" and the
\* generator is not invoked; the generator is invoked exactly when the lookup
\* yields nothing (no record at that moment, an empty record, a failed read),
\* and a result it returns without an error is returned tagged "generated".
\* The lookup yields what the store holds when it is made: while nothing
\* changes during the request, a record is yielded exactly when the read
\* reaches the database and the store holds a non-empty record for the key.
C26_CacheFirst ==
    Looked =>
        /\ out.raw \in {"aapl", "AAPL"} => out.symbol = "AAPL"
        /\ LookupHit =>
               /\ ~out.response.invoked
               /\ out.response.status = 200
               /\ out.response.body
                      = DictSet(out.cached_signal, "source", "database")
        /\ out.response.invoked <=> ~LookupHit
        /\ out.response.invoked /\ out.response.status = 200 =>
               /\ out.response.body.source = "generated"
               /\ out.response.body.symbol = out.symbol
        /\ out.quiet =>
               /\ LookupHit <=>
                      (out.io /\ HeldToday # {} /\ HeldRecord # EmptyDict)
               /\ LookupHit => out.cached_signal = HeldRecord

\* A lower-case request for a symbol stored today is answered from the store
\* although the price source has a history for it.
C26_Witness ==
    /\ Looked
    /\ out.quiet
    /\ out.raw = "aapl"
    /\ LookupHit
    /\ out.response.body.source = "database"
    /\ Analysable("AAPL")

\* ---------------------------------------------------------------------- RSI
Calculated == out.op = "calculate_rsi"
Defined(i) == out.result[i] # NaN
\* Position i is past the first rsiPeriod positions: the rsiPeriod price
\* changes that end at i all exist.
PastWarmUp(i) == i > out.period

\* C28: the result has one entry per close and no RSI at the first rsiPeriod
\* positions (index 0 to rsiPeriod - 1): a series shorter than rsiPeriod has
\* none at all, and a series of rsiPeriod + 1 closes at most at its last
\* position.
C28_WarmUpUndefined ==
    Calculated =>
        /\ Len(out.result) = Len(out.prices)
        /\ \A i \in DOMAIN out.result : ~PastWarmUp(i) => ~Defined(i)

\* C29: wherever the window is full and holds no loss the RSI is 100, the
\* flat window, with no gain either, included.
C29_NoLossSaturates ==
    Calculated =>
        \A i \in DOMAIN out.result :
            (PastWarmUp(i) /\ LossSum(out.prices, i, out.period) = 0)
                => out.result[i] = 10000

\* C30: every defined RSI value lies in the closed interval [0, 100].
C30_Bounded ==
    Calculated =>
        \A i \in DOMAIN out.result :
            Defined(i) => out.result[i] >= 0 /\ out.result[i] <= 10000

\* The configured window over 15 closes with gains and losses, where the
\* quotient gain / loss is above 1 and the RSI strictly inside the interval.
C30_Witness ==
    /\ Calculated
    /\ out.period = RSI_PERIOD
    /\ Len(out.prices) = RSI_PERIOD + 1
    /\ out.result[RSI_PERIOD + 1] > 5000
    /\ out.result[RSI_PERIOD + 1] < 10000

\* --------------------------------------------------------------- statistics
\* A get_database_stats call that has returned.
GotStats == out.op = "get_database_stats" /\ out.done
StoredSymbols == {r.symbol : r \in rows}
DatedToday == {r \in rows : r.date = today}
CountsMatch ==
    /\ out.result.total_signals = Cardinality(rows)
    /\ out.result.unique_symbols = Cardinality(StoredSymbols)
    /\ out.result.signals_today = Cardinality(DatedToday)
CountsOrdered ==
    /\ out.result.signals_today <= out.result.total_signals
    /\ out.result.unique_symbols <= out.result.total_signals

\* C31: get_database_stats returns the number of stored records, of distinct
\* symbols and of records dated today, hence signals_today and unique_symbols
\* are at most total_signals.  Read for the calls whose queries all ran: the
\* counts are those of the store when it did not change during the call, and
\* the two inequalities hold for every result.
C31_AsStated ==
    (GotStats /\ out.io) =>
        /\ out.quiet => CountsMatch
        /\ CountsOrdered

\* ------------------------------------------------------------------- labels
Labels == {"HOLD", "BUY", "SELL", "STRONG_BUY", "STRONG_SELL"}

\* C32: generate_signals classifies the price series it is given: when the
\* call has ended, every bar of the series carries one label, and that label
\* is one of HOLD, BUY, SELL, STRONG_BUY, STRONG_SELL, whichever rules
\* applied to the bar, the calendar override included.
C32_OneLabelPerBar ==
    OnData =>
        \A i \in DOMAIN Data :
            i \in DOMAIN out.labels /\ out.labels[i] \in Labels

\* ------------------------------------------------------------- frame effects
ReadOps == {"get_signal", "signal_exists", "get_signals_by_date",
            "get_portfolio_signals", "get_database_stats", "get_stock_signal"}

\* A step of the caller: it starts a call, or it takes the call in progress
\* further.  The other steps are those of other processes.
OwnStep ==
    \/ out.op = "none"
    \/ /\ InCall
       /\ out'.op = out.op
       /\ [out' EXCEPT !.quiet = out.quiet] # out

\* C33: a step that performs get_signal, signal_exists, get_signals_by_date,
\* get_portfolio_signals or get_database_stats, or the single-symbol lookup
\* that tags the record it was given, leaves every row as it was, also when
\* the symbol or source field of a returned record has been set.
C33_ReadsLeaveStore ==
    [][(OwnStep /\ out'.op \in ReadOps) => rows' = rows]_vars

\* A returned record differs from the stored one by the symbol set on it.
C33_Witness ==
    /\ GotPartition
    /\ out.quiet
    /\ \E i \in DOMAIN out.result.cached :
           /\ out.result.cached[i]
                  # get_signal(rows, out.result.cached[i].symbol, out.date, TRUE)
           /\ out.result.cached[i].symbol = out.symbols[i]

Saved == out.op = "save_signal"
\* The rows of the keys other than the one the save was for.
OtherKeys(tbl) == {r \in tbl : ~(r.symbol = out.symbol /\ r.date = out.date)}

\* C34: save_signal for (symbol, date) leaves the row of every other key as
\* it was, and a save_signal that returns False leaves the whole table as it
\* was.
C34_SaveTouchesOneKey ==
    Saved =>
        /\ OtherKeys(rows) = OtherKeys(out.before)
        /\ ~out.result => rows = out.before

\* A successful save while the same symbol has a record under another date.
C34_Witness ==
    /\ Saved /\ out.result
    /\ \E r \in OtherKeys(rows) : r.symbol = out.symbol /\ r \in out.before

\* C35: when every lookup of a get_portfolio_signals call reaches the
\* database, a requested symbol is listed under 'cached' exactly when
\* signal_exists is true for it and the date: any stored record, an empty one
\* included, is a cache hit.
C35_CachedIffExists ==
    (GotPartition /\ out.quiet /\ FailedLookups = {}) =>
        \A s \in Range(out.symbols) :
            s \in Range(SymbolsOf(out.result.cached))
                <=> signal_exists(rows, s, out.date, TRUE)

\* ------------------------------------------------------- scheduler failures
Dead == out.op = "scheduler" /\ out.pc = "dead"
Exited == out.op = "scheduler" /\ out.pc = "exited"

\* C36: a failure inside the cleanup job does not reach the loop: when the
\* cleanup job has ended, failed or not, the loop is alive, sleeping or
\* already inside the next scan, and an exception never ends the loop while
\* the last job to end is a cleanup or a health check.
C36_CleanupFailureContained ==
    /\ JobEnded("cleanup") => out.pc \in {"sleeping", "scan"}
    /\ Dead => out.last.job = "scan"

\* After a failed cleanup a health check has run and a scan is running.
C36_Witness ==
    /\ out.op = "scheduler"
    /\ out.cleanup_failed
    /\ out.last.job = "health"
    /\ out.pc = "scan"

\* C37: an exception raised during a scheduled scan ends the scheduler loop:
\* once a scan has failed the loop is dead, no scan is in progress, and the
\* only step left is the end of start_scheduler, so no further scan, cleanup
\* or health check runs.
C37_ScanFailureEndsLoop ==
    /\ []((JobEnded("scan") /\ out.last.failed) => (Dead /\ out.running = 0))
    /\ [][Dead => out'.op = "none"]_vars

\* The loop is dead after a failed scan with every job due.
C37_Witness ==
    /\ Dead
    /\ out.last.failed
    /\ out.scan_due /\ out.cleanup_due /\ out.health_due

\* C38: the job loop is entered only after the initial health check has
\* returned true: a scheduler that is in the loop, or has run or started any
\* job, passed the check, and after a failed check the process has exited
\* with no job run, none started and none to come.
C38_HealthGate ==
    /\ [](out.op = "scheduler" =>
            /\ out.healthy <=> ~Exited
            /\ Exited => /\ out.last.job = "none"
                         /\ out.running = 0
                         /\ out.scan = << >>)
    /\ [][Exited => out'.op = "none"]_vars

\* The initial health check failed over a store that holds an old record.
C38_Witness ==
    /\ Exited
    /\ ~out.healthy
    /\ \E r \in rows : r.date = Stale

\* ---------------------------------------------------------------- scan list
\* The symbols of the scan list the program could read, in file order.
Listed == IF out.file.exists /\ out.file.readable
          THEN ReadSymbols(out.file.lines) ELSE << >>
Excluded == Range(or_empty(out.exclude))

\* C39: load_scan_list(exclude_stocks) returns the symbols of the scan list
\* in file order, each as often as the file lists it when it is not in
\* exclude_stocks and not at all when it is; so what main scans shares no
\* symbol with the portfolio it has analysed.
C39_ScanListExcludes ==
    /\ out.op = "load_scan_list" =>
           /\ IsSubseq(out.result, Listed)
           /\ \A s \in Range(Listed) :
                  Count(out.result, s) =
                      IF s \in Excluded THEN 0 ELSE Count(Listed, s)
    /\ (out.op = "main" /\ out.loaded) =>
           /\ Range(out.scan_stocks) \cap Range(out.stocks_to_analyze) = {}
           /\ IsSubseq(out.scan_stocks, Listed)
           /\ Range(Listed) \subseteq
                  Range(out.scan_stocks) \cup Range(out.stocks_to_analyze)

\* The scan list names a portfolio symbol in lower case and another symbol:
\* only the other one is scanned.
C39_Witness ==
    /\ out.op = "main"
    /\ out.done
    /\ Len(out.results) = 1
    /\ Len(out.scan_results) = 1
    /\ Len(out.sent) = 1 /\ out.sent[1].kind = "portfolio"
    /\ out.stocks_to_analyze = <<"AAPL">>
    /\ out.file.lines = <<"aapl ", "MSFT">>
    /\ out.scan_stocks = <<"MSFT">>

\* -------------------------------------------------------- scan notification
\* The positions of scan results that are not errors and are labelled BUY or
\* SELL.
ActionableIn(results) ==
    {i \in DOMAIN results :
        /\ "error" \notin DOMAIN results[i]
        /\ results[i].currentSignal \in {"BUY", "SELL"}}
Actionable == ActionableIn(out.results)
\* Some message lists `symbol` under `side`.
Shown(messages, side, symbol) ==
    \E m \in DOMAIN messages : \E k \in DOMAIN messages[m].pieces :
        LET p == messages[m].pieces[k] IN
        p.piece = "line" /\ p.side = side /\ p.symbol = symbol
\* The messages handed to send_telegram_message so far, in order.
Handed == [i \in DOMAIN out.sent |-> out.sent[i].message]
ScanNotified == out.op = "scan_notification"

\* C40: format_scan_telegram_message returns the empty list exactly when no
\* non-error result is labelled BUY or SELL, and every BUY or SELL symbol is
\* listed in the messages it returns otherwise.  A scan whose results are
\* only errors, HOLD, STRONG_BUY or STRONG_SELL hands no message over, at no
\* point of the notification and in main as well.  What is handed over is
\* always the first messages of the formatted list, in order: all of them,
\* with every BUY or SELL symbol, once the notification has ended without an
\* exception under a configuration, and fewer when an exception ended it.
C40_OnlyBuySellNotify ==
    /\ out.op = "format_scan" =>
           /\ (out.messages = << >>) <=> (Actionable = {})
           /\ \A i \in Actionable :
                  Shown(out.messages, out.results[i].currentSignal,
                        out.results[i].symbol)
    /\ ScanNotified =>
           /\ Actionable = {} => (out.chunks = << >> /\ out.sent = << >>)
           /\ ~out.configured => out.sent = << >>
           /\ Len(out.sent) <= Len(format_scan_telegram_message(out.results))
           /\ \A i \in DOMAIN out.sent :
                  Handed[i] = format_scan_telegram_message(out.results)[i]
           /\ (out.done /\ out.configured /\ ~out.failed) =>
                  /\ Handed = format_scan_telegram_message(out.results)
                  /\ \A i \in Actionable :
                         Shown(Handed, out.results[i].currentSignal,
                               out.results[i].symbol)
           /\ (out.done /\ out.failed) => Len(out.sent) < Len(out.chunks)
    /\ out.op = "main" =>
           (ActionableIn(out.scan_results) = {} =>
                \A i \in DOMAIN out.sent : out.sent[i].kind # "scan")

\* A BUY that fills the first message and a SELL that goes to a continuation:
\* the notification has handed over every message, both symbols are listed,
\* and the first message, which got to no user, did not stop the others.
C40_Witness ==
    /\ ScanNotified
    /\ out.done /\ out.configured /\ ~out.failed
    /\ Len(out.results) = 2
    /\ out.results[1].symbol = "AAPL" /\ out.results[2].symbol = "MSFT"
    /\ Actionable = {1, 2}
    /\ out.results[1].currentSignal = "BUY"
    /\ out.results[2].currentSignal = "SELL"
    /\ Len(out.sent) >= 3
    /\ out.sent[1].reached = {}
    /\ out.sent[2].reached = {"u1"}
    /\ Shown(Handed, "BUY", "AAPL")
    /\ Shown(Handed, "SELL", "MSFT")

====
